---- MODULE Spec2Model ----
(***************************************************************************)
(* The date-range calendar engine of dash-core-components: the             *)
(* DatePickerRange controller (fragments/DatePickerRange.tsx), the date    *)
(* helpers (utils/calendar/helpers) and the day-grid keyboard handler      *)
(* (utils/calendar/CalendarMonth).                                         *)
(*                                                                         *)
(* Values.  A JavaScript value that may be undefined, a Date or a string   *)
(* is a record [form, day]:                                                *)
(*   form = "undefined"  the value undefined                               *)
(*   form = "Date"       a Date at local midnight of day `day`             *)
(*   form = "DateTime"   a Date inside day `day`, not at midnight          *)
(*   form = "iso"        the string YYYY-MM-DD of day `day`                *)
(*   form = "isotime"    an ISO date-time string inside day `day`          *)
(*   form = "display"    day `day` written in display_format               *)
(*   form = "bad"        a string no parser accepts ("13/45/2024")         *)
(*   form = "empty"      the string ''                                     *)
(* Days are integers (a day number); addDays is integer addition.          *)
(*                                                                         *)
(* React.  A render is followed by the effects whose dependencies changed; *)
(* `stale` holds the dependencies changed since the last effects pass.     *)
(* Event handlers run only when no effect is pending (React flushes        *)
(* passive effects before it handles the next event).                      *)
(***************************************************************************)
EXTENDS Integers, Sequences, FiniteSets, TLC

\* Days explored: 0..MaxDay.
MaxDay == 1

Days == 0..MaxDay

undefined == [form |-> "undefined", day |-> 0]
Date(d) == [form |-> "Date", day |-> d]
Str(f, d) == [form |-> f, day |-> d]
EmptyStr == [form |-> "empty", day |-> 0]
BadStr == [form |-> "bad", day |-> 0]

\* JavaScript truthiness of the values above: undefined and '' are falsy.
Falsy(x) == x.form \in {"undefined", "empty"}
IsString(x) == x.form \in {"iso", "isotime", "display", "bad", "empty"}

Dates == {Date(d) : d \in Days}
\* What the host passes as start_date / end_date: nothing, a date, or (for one
\* day) a date-time.
WireValues == {undefined} \cup {Str("iso", d) : d \in Days} \cup {Str("isotime", 0)}
\* What a user types into an input box: nothing, unparsable text, a day in
\* display_format, or (for one day) a day in another format.
Texts == {EmptyStr, BadStr} \cup {Str("display", d) : d \in Days} \cup {Str("iso", 0)}

----------------------------------------------------------------------------
(* Date codec: utils/calendar/helpers                                      *)

\* date-fns parse(dateStr, format, ref): valid only for text in that format.
parse(dateStr, formatStr) ==
    IF dateStr.form = formatStr THEN Date(dateStr.day) ELSE undefined

\* date-fns parseISO: a date, or a date-time that keeps its time of day.
parseISO(dateStr) ==
    CASE dateStr.form = "iso" -> Date(dateStr.day)
      [] dateStr.form = "isotime" -> [form |-> "DateTime", day |-> dateStr.day]
      [] OTHER -> undefined

\* new Date(dateStr): the permissive native parse.
NativeDate(dateStr) ==
    CASE dateStr.form \in {"iso", "display"} -> Date(dateStr.day)
      [] dateStr.form = "isotime" -> [form |-> "DateTime", day |-> dateStr.day]
      [] OTHER -> undefined

startOfDay(date) == Date(date.day)

\* formatStr "none" is an absent format argument.
strAsDate(dateStr, formatStr) ==
    IF Falsy(dateStr) THEN undefined
    ELSE LET first == IF formatStr # "none" THEN parse(dateStr, formatStr)
                      ELSE parseISO(dateStr)
             parsed == IF first = undefined THEN NativeDate(dateStr) ELSE first
         IN IF parsed # undefined THEN startOfDay(parsed) ELSE undefined

formatDate(date, formatStr) ==
    IF Falsy(date) THEN EmptyStr
    ELSE Str(IF formatStr = "none" THEN "iso" ELSE formatStr, date.day)

dateAsStr(date) ==
    IF Falsy(date) THEN undefined ELSE formatDate(date, "iso")

dateFnsIsSameDay(date1, date2) == date1.day = date2.day

isSameDay_Identity(day1, day2) ==
    IF Falsy(day1) /\ Falsy(day2) THEN TRUE
    ELSE IF Falsy(day1) \/ Falsy(day2) THEN FALSE
    ELSE LET s1 == IF IsString(day1) THEN day1 ELSE dateAsStr(day1)
             s2 == IF IsString(day2) THEN day2 ELSE dateAsStr(day2)
         IN s1 = s2

isSameDay(day1, day2) ==
    IF Falsy(day1) /\ Falsy(day2) THEN TRUE
    ELSE IF Falsy(day1) \/ Falsy(day2) THEN FALSE
    ELSE LET date1 == IF IsString(day1) THEN strAsDate(day1, "none") ELSE day1
             date2 == IF IsString(day2) THEN strAsDate(day2, "none") ELSE day2
         IN IF Falsy(date1) \/ Falsy(date2) THEN FALSE
            ELSE dateFnsIsSameDay(date1, date2)

----------------------------------------------------------------------------
(* Constraint evaluator: utils/calendar/helpers                            *)

MinOf(a, b) == IF a <= b THEN a ELSE b
MaxOf(a, b) == IF a >= b THEN a ELSE b

isDateInRange_NoSwap(targetDate, minDate, maxDate) ==
    LET target == startOfDay(targetDate).day
    IN /\ ~Falsy(minDate) => startOfDay(minDate).day <= target
       /\ ~Falsy(maxDate) => target <= startOfDay(maxDate).day

isDateInRange(targetDate, minDate, maxDate) ==
    LET target == startOfDay(targetDate).day
    IN IF ~Falsy(minDate) /\ ~Falsy(maxDate)
       THEN /\ MinOf(startOfDay(minDate).day, startOfDay(maxDate).day) <= target
            /\ target <= MaxOf(startOfDay(minDate).day, startOfDay(maxDate).day)
       ELSE IF ~Falsy(minDate) /\ target < startOfDay(minDate).day THEN FALSE
       ELSE IF ~Falsy(maxDate) /\ target > startOfDay(maxDate).day THEN FALSE
       ELSE TRUE

isDateDisabled_RangeOnly(date, minDate, maxDate, disabledDates) ==
    ~isDateInRange(date, minDate, maxDate)

\* disabledDates is a set of Dates (the code's array, order irrelevant).
isDateDisabled(date, minDate, maxDate, disabledDates) ==
    IF ~isDateInRange(date, minDate, maxDate) THEN TRUE
    ELSE \E d \in disabledDates : isSameDay(date, d)

----------------------------------------------------------------------------
(* DatePickerRange: props and state                                        *)

\* Deferred input commits (animation-frame callbacks) that may be pending.
MaxPending == 2

\* display_format: a format other than YYYY-MM-DD, such as MM/DD/YYYY.
display_format == "display"

\* The props as the component defaults them, without constraints.
DefaultConfig ==
    [updatemode |-> "singledate",
     minimum_nights |-> 0,
     min_date_allowed |-> undefined,
     max_date_allowed |-> undefined,
     disabled_days |-> {},
     stay_open_on_select |-> FALSE,
     reopen_calendar_on_clear |-> FALSE,
     clearable |-> TRUE,
     disabled |-> FALSE]

\* The prop combinations explored, each changing the defaults in one respect;
\* they are fixed during a behaviour.
Configs ==
    {DefaultConfig,
     [DefaultConfig EXCEPT !.updatemode = "bothdates"],
     [DefaultConfig EXCEPT !.min_date_allowed = Str("iso", 1)],
     [DefaultConfig EXCEPT !.disabled_days = {Str("iso", 1)}],
     [DefaultConfig EXCEPT !.minimum_nights = 2],
     [DefaultConfig EXCEPT !.stay_open_on_select = TRUE,
                           !.reopen_calendar_on_clear = TRUE]}

VARIABLES
    cfg,                \* the props other than start_date and end_date
    start_date,         \* prop
    end_date,           \* prop
    internalStartDate,  \* useState
    internalEndDate,    \* useState
    startInputValue,    \* useState: the text of the start input
    endInputValue,      \* useState: the text of the end input
    isCalendarOpen,     \* useState
    stale,              \* effect dependencies changed since the last effects pass
    frames,             \* pending requestAnimationFrame callbacks, oldest first
    setPropsCalls,      \* history: the setProps payloads since the last event
    calReq,             \* history: the last call on calendarRef since the last event
    lastOp              \* history: the last event handled

\* The calendar's own state.  The controller's specifications stand for the
\* calendar by the requests made of it (calReq) and leave its window out; the
\* calendar's specification (SpecCalendar) moves it.
VARIABLES
    numberOfMonthsShown,    \* prop of Calendar
    visibleMonths           \* the months rendered, first to last

\* One rendered month (CalendarMonth): its props, the day that has the focus,
\* and the last callback a key press on that day invoked.  The specifications
\* of the month (SpecGrid, SpecMonthKeys) move them.
VARIABLES
    monthProps,             \* props of CalendarMonth
    gridDates,              \* the memoised grid of the month, <<>> before a render
    dateFocused,            \* prop dateFocused: the day whose cell has the focus
    monthCall               \* history: the last key press and the callback it invoked

monthVars == <<monthProps, gridDates, dateFocused, monthCall>>

\* The date codec on its own (SpecCodec): the arguments of a format-and-parse
\* round trip, and its result.
VARIABLES
    codecIn,                \* the date, the display format, today, the engine
    codecOut                \* what strAsDate(formatDate(d, f), f) returned

\* The generic Input widget on its own (SpecInput): its props, state, DOM
\* element and timers, as one record.
VARIABLES
    widget

\* State outside the date picker and its calendar.
sideVars == <<codecIn, codecOut, widget>>

NotRun == [form |-> "notRun"]
SideAtRest ==
    /\ codecIn = NotRun
    /\ codecOut = NotRun
    /\ widget = NotRun

calendarVars == <<numberOfMonthsShown, visibleMonths, monthProps, gridDates,
                  dateFocused, monthCall>>

vars == <<cfg, start_date, end_date, internalStartDate, internalEndDate,
          startInputValue, endInputValue, isCalendarOpen, stale, frames,
          setPropsCalls, calReq, lastOp, numberOfMonthsShown, visibleMonths,
          monthProps, gridDates, dateFocused, monthCall, codecIn, codecOut,
          widget>>

\* The key pressed and the callback its handler invoked, with the date passed.
NoCall == [key |-> "none", fn |-> "none", date |-> undefined]
Call(key, fn, date) == [key |-> key, fn |-> fn, date |-> date]

\* CalendarMonth's props with their defaults, of a month that is not looked
\* at.
NoMonthProps ==
    [year |-> 0, month |-> 0, firstDayOfWeek |-> 0, showOutsideDays |-> TRUE,
     minDateAllowed |-> undefined, maxDateAllowed |-> undefined,
     disabledDates |-> {}, direction |-> "ltr"]

MonthNotRendered ==
    /\ monthProps = NoMonthProps
    /\ gridDates = <<>>
    /\ dateFocused = undefined
    /\ monthCall = NoCall

Op(kind, a, b) == [kind |-> kind, a |-> a, b |-> b]
NoReq == [op |-> "none", date |-> undefined]
Req(op, date) == [op |-> op, date |-> date]

minDate == strAsDate(cfg.min_date_allowed, "none")
maxDate == strAsDate(cfg.max_date_allowed, "none")

addDays(date, n) == Date(date.day + n)
subDays(date, n) == Date(date.day - n)

disabledDates_IgnoreEnd(internalStart, internalEnd) ==
    LET baseDates == {strAsDate(d, "none") : d \in cfg.disabled_days} \ {undefined}
    IN IF ~Falsy(internalStart) /\ cfg.minimum_nights > 0
       THEN baseDates
              \cup {addDays(internalStart, i) : i \in 1..(cfg.minimum_nights - 1)}
              \cup {subDays(internalStart, i) : i \in 1..(cfg.minimum_nights - 1)}
       ELSE baseDates

disabledDates_Inclusive(internalStart, internalEnd) ==
    LET baseDates == {strAsDate(d, "none") : d \in cfg.disabled_days} \ {undefined}
    IN IF ~Falsy(internalStart) /\ cfg.minimum_nights > 0 /\ Falsy(internalEnd)
       THEN baseDates
              \cup {addDays(internalStart, i) : i \in 1..cfg.minimum_nights}
              \cup {subDays(internalStart, i) : i \in 1..cfg.minimum_nights}
       ELSE baseDates

\* The useMemo of lines 69-91, as a function of the state it closes over.
disabledDates(internalStart, internalEnd) ==
    LET baseDates == {strAsDate(d, "none") : d \in cfg.disabled_days} \ {undefined}
    IN IF /\ ~Falsy(internalStart)
          /\ cfg.minimum_nights # 0
          /\ cfg.minimum_nights > 0
          /\ Falsy(internalEnd)
       THEN baseDates
              \cup {addDays(internalStart, i) : i \in 1..(cfg.minimum_nights - 1)}
              \cup {subDays(internalStart, i) : i \in 1..(cfg.minimum_nights - 1)}
       ELSE baseDates

isDateAllowed(date, internalStart, internalEnd) ==
    /\ ~Falsy(date)
    /\ ~isDateDisabled(date, minDate, maxDate,
                       disabledDates(internalStart, internalEnd))

\* A state setter re-renders unless Object.is(old, new): every Date passed to a
\* setter is an object other than the one held, undefined is undefined.
Changed(old, new) == ~(old = undefined /\ new = undefined)

StaleIf(dep, changed) == IF changed THEN {dep} ELSE {}

----------------------------------------------------------------------------
(* DatePickerRange: effects                                                *)

Payload(keys, s, e) == [keys |-> keys, start_date |-> s, end_date |-> e]

EmissionEffect_BothKeys(sd, ed, internalStart, internalEnd) ==
    IF isSameDay(sd, internalStart) /\ isSameDay(ed, internalEnd) THEN <<>>
    ELSE IF cfg.updatemode = "singledate" \/ Falsy(internalStart) = Falsy(internalEnd)
    THEN <<Payload({"start_date", "end_date"},
                   dateAsStr(internalStart), dateAsStr(internalEnd))>>
    ELSE <<>>

EmissionEffect_AnyMode(sd, ed, internalStart, internalEnd) ==
    IF isSameDay(sd, internalStart) /\ isSameDay(ed, internalEnd) THEN <<>>
    ELSE IF Falsy(internalStart) = Falsy(internalEnd)
    THEN <<Payload({"start_date", "end_date"},
                   dateAsStr(internalStart), dateAsStr(internalEnd))>>
    ELSE IF ~Falsy(internalStart)
    THEN <<Payload({"start_date"}, dateAsStr(internalStart), undefined)>>
    ELSE <<Payload({"end_date"}, undefined, dateAsStr(internalEnd))>>

\* The effect of lines 122-151: the payloads it passes to setProps (none or one),
\* from the props and state of the render it belongs to.
EmissionEffect(sd, ed, internalStart, internalEnd) ==
    LET startChanged == ~isSameDay(sd, internalStart)
        endChanged == ~isSameDay(ed, internalEnd)
    IN IF ~startChanged /\ ~endChanged THEN <<>>
       ELSE IF ~Falsy(internalStart) /\ ~Falsy(internalEnd)
       THEN <<Payload({"start_date", "end_date"},
                      dateAsStr(internalStart), dateAsStr(internalEnd))>>
       ELSE IF Falsy(internalStart) /\ Falsy(internalEnd)
       THEN <<Payload({"start_date", "end_date"},
                      dateAsStr(internalStart), dateAsStr(internalEnd))>>
       ELSE IF cfg.updatemode = "singledate" /\ ~Falsy(internalStart)
       THEN <<Payload({"start_date"}, dateAsStr(internalStart), undefined)>>
       ELSE IF cfg.updatemode = "singledate" /\ ~Falsy(internalEnd)
       THEN <<Payload({"end_date"}, undefined, dateAsStr(internalEnd))>>
       ELSE <<>>

\* The host's setProps: it merges the payload's keys into the props.
HostApply(prop, key, calls) ==
    IF calls # <<>> /\ key \in calls[1].keys THEN calls[1][key] ELSE prop

\* One commit's effects, in the order of lines 106-151, each reading the props
\* and state of the render and running only if one of its dependencies changed.
RunEffects ==
    /\ stale # {}
    /\ LET syncStart == "start_date" \in stale
           syncEnd == "end_date" \in stale
           bufStart == "internalStartDate" \in stale
           bufEnd == "internalEndDate" \in stale
           newStart == IF syncStart THEN strAsDate(start_date, "none")
                       ELSE internalStartDate
           newEnd == IF syncEnd THEN strAsDate(end_date, "none")
                     ELSE internalEndDate
           calls == IF bufStart \/ bufEnd
                    THEN EmissionEffect(start_date, end_date,
                                        internalStartDate, internalEndDate)
                    ELSE <<>>
           sd == HostApply(start_date, "start_date", calls)
           ed == HostApply(end_date, "end_date", calls)
       IN /\ internalStartDate' = newStart
          /\ internalEndDate' = newEnd
          /\ startInputValue' = IF bufStart
                                THEN formatDate(internalStartDate, display_format)
                                ELSE startInputValue
          /\ endInputValue' = IF bufEnd
                              THEN formatDate(internalEndDate, display_format)
                              ELSE endInputValue
          /\ setPropsCalls' = setPropsCalls \o calls
          /\ start_date' = sd
          /\ end_date' = ed
          /\ stale' = StaleIf("internalStartDate",
                              syncStart /\ Changed(internalStartDate, newStart))
                      \cup StaleIf("internalEndDate",
                                   syncEnd /\ Changed(internalEndDate, newEnd))
                      \cup StaleIf("start_date", sd # start_date)
                      \cup StaleIf("end_date", ed # end_date)
    /\ UNCHANGED <<cfg, isCalendarOpen, frames, calReq, lastOp>>
    /\ UNCHANGED <<calendarVars, sideVars>>

----------------------------------------------------------------------------
(* DatePickerRange: event handlers                                         *)

\* An event is handled once the effects of the previous render have run; the
\* animation frame a key press asked for comes before the next event.
Idle == stale = {} /\ frames = <<>>

\* Every handler starts a new history.  No handler of the controller touches
\* the calendar's state other than through calendarRef.
Event(op) ==
    /\ lastOp' = op
    /\ setPropsCalls' = <<>>
    /\ UNCHANGED <<calendarVars, sideVars>>

SetSelection(newStart, newEnd, open) ==
    /\ internalStartDate' = newStart
    /\ internalEndDate' = newEnd
    /\ isCalendarOpen' = open
    /\ stale' = StaleIf("internalStartDate", Changed(internalStartDate, newStart))
                \cup StaleIf("internalEndDate", Changed(internalEndDate, newEnd))

handleSelectionChange_NoSwap(start, end) ==
    LET isNewSelection ==
            /\ isSameDay(start, end)
            /\ \/ Falsy(internalStartDate) /\ Falsy(internalEndDate)
               \/ ~Falsy(internalStartDate) /\ ~Falsy(internalEndDate)
    IN IF isNewSelection THEN SetSelection(start, undefined, isCalendarOpen)
       ELSE SetSelection(start, end,
                         IF ~Falsy(end) /\ ~cfg.stay_open_on_select THEN FALSE
                         ELSE isCalendarOpen)

handleSelectionChange_EmptyOnly(start, end) ==
    LET isNewSelection ==
            /\ isSameDay(start, end)
            /\ Falsy(internalStartDate) /\ Falsy(internalEndDate)
        open == IF ~Falsy(end) /\ ~cfg.stay_open_on_select THEN FALSE
                ELSE isCalendarOpen
    IN IF isNewSelection THEN SetSelection(start, undefined, isCalendarOpen)
       ELSE IF ~Falsy(start) /\ ~Falsy(end) /\ start.day > end.day
       THEN SetSelection(end, start, open)
       ELSE SetSelection(start, end, open)

handleSelectionChange_EndFirst(start, end) ==
    LET isNewSelection ==
            /\ isSameDay(start, end)
            /\ \/ Falsy(internalStartDate) /\ Falsy(internalEndDate)
               \/ ~Falsy(internalStartDate) /\ ~Falsy(internalEndDate)
        open == IF ~Falsy(end) /\ ~cfg.stay_open_on_select THEN FALSE
                ELSE isCalendarOpen
    IN IF isNewSelection THEN SetSelection(undefined, end, isCalendarOpen)
       ELSE IF ~Falsy(start) /\ ~Falsy(end) /\ start.day > end.day
       THEN SetSelection(end, start, open)
       ELSE SetSelection(start, end, open)

handleSelectionChange_ClosesOnStart(start, end) ==
    LET isNewSelection ==
            /\ isSameDay(start, end)
            /\ \/ Falsy(internalStartDate) /\ Falsy(internalEndDate)
               \/ ~Falsy(internalStartDate) /\ ~Falsy(internalEndDate)
        open == IF ~cfg.stay_open_on_select THEN FALSE ELSE isCalendarOpen
    IN IF isNewSelection THEN SetSelection(start, undefined, open)
       ELSE IF ~Falsy(start) /\ ~Falsy(end) /\ start.day > end.day
       THEN SetSelection(end, start, open)
       ELSE SetSelection(start, end, open)

\* Lines 278-304.
handleSelectionChange(start, end) ==
    LET isNewSelection ==
            /\ isSameDay(start, end)
            /\ \/ Falsy(internalStartDate) /\ Falsy(internalEndDate)
               \/ ~Falsy(internalStartDate) /\ ~Falsy(internalEndDate)
        open == IF ~Falsy(end) /\ ~cfg.stay_open_on_select THEN FALSE
                ELSE isCalendarOpen
    IN IF isNewSelection THEN SetSelection(start, undefined, isCalendarOpen)
       ELSE IF ~Falsy(start) /\ ~Falsy(end) /\ start.day > end.day
       THEN SetSelection(end, start, open)
       ELSE SetSelection(start, end, open)

\* The calendar is rendered, and calendarRef.current set, while the popover is open.
CalendarMounted == ~cfg.disabled /\ isCalendarOpen

\* What a deferred callback keeps of the render that created it.
Closure(text, prop) ==
    [text |-> text, prop |-> prop,
     internalStartDate |-> internalStartDate, internalEndDate |-> internalEndDate]

\* The start cleared by an empty text as the end is.
sendStartInputAsDate_ClearsOnEmpty(focusCalendar, c) ==
    LET parsed == strAsDate(c.text, display_format)
        allowed == isDateAllowed(parsed, c.internalStartDate, c.internalEndDate)
        previousDate == strAsDate(c.prop, "none")
    IN /\ internalStartDate' = IF allowed THEN parsed ELSE undefined
       /\ stale' = StaleIf("internalStartDate",
                           allowed \/ Changed(internalStartDate, undefined))
       /\ startInputValue' =
              IF allowed THEN startInputValue
              ELSE IF ~Falsy(previousDate)
              THEN formatDate(previousDate, display_format)
              ELSE EmptyStr
       /\ calReq' =
              IF ~CalendarMounted THEN NoReq
              ELSE IF allowed
              THEN Req(IF focusCalendar THEN "focusDate" ELSE "setVisibleDate", parsed)
              ELSE IF focusCalendar THEN Req("focusDate", previousDate)
              ELSE NoReq
       /\ UNCHANGED <<internalEndDate, endInputValue>>

\* Lines 162-188, with the values of the render `c` that created the callback.
sendStartInputAsDate(focusCalendar, c) ==
    LET parsed == strAsDate(c.text, display_format)
        allowed == isDateAllowed(parsed, c.internalStartDate, c.internalEndDate)
        previousDate == strAsDate(c.prop, "none")
    IN /\ internalStartDate' =
              IF allowed THEN parsed
              ELSE IF ~Falsy(c.text) THEN undefined
              ELSE internalStartDate
       /\ stale' = StaleIf("internalStartDate",
                           \/ allowed
                           \/ ~Falsy(c.text) /\ Changed(internalStartDate, undefined))
       /\ startInputValue' =
              IF allowed THEN startInputValue
              ELSE IF ~Falsy(previousDate)
              THEN formatDate(previousDate, display_format)
              ELSE EmptyStr
       /\ calReq' =
              IF ~CalendarMounted THEN NoReq
              ELSE IF allowed
              THEN Req(IF focusCalendar THEN "focusDate" ELSE "setVisibleDate", parsed)
              ELSE IF focusCalendar THEN Req("focusDate", previousDate)
              ELSE NoReq
       /\ UNCHANGED <<internalEndDate, endInputValue>>

sendEndInputAsDate_NoVisible(focusCalendar, c) ==
    LET parsed == strAsDate(c.text, display_format)
        allowed == isDateAllowed(parsed, c.internalStartDate, c.internalEndDate)
        previousDate == strAsDate(c.prop, "none")
    IN /\ internalEndDate' =
              IF allowed THEN parsed
              ELSE IF c.text = EmptyStr THEN undefined
              ELSE internalEndDate
       /\ stale' = StaleIf("internalEndDate",
                           \/ allowed
                           \/ c.text = EmptyStr /\ Changed(internalEndDate, undefined))
       /\ endInputValue' =
              IF allowed THEN endInputValue
              ELSE IF ~Falsy(previousDate)
              THEN formatDate(previousDate, display_format)
              ELSE EmptyStr
       /\ calReq' =
              IF ~CalendarMounted \/ ~focusCalendar THEN NoReq
              ELSE IF allowed THEN Req("focusDate", parsed)
              ELSE Req("focusDate", previousDate)
       /\ UNCHANGED <<internalStartDate, startInputValue>>

\* Lines 190-216.
sendEndInputAsDate(focusCalendar, c) ==
    LET parsed == strAsDate(c.text, display_format)
        allowed == isDateAllowed(parsed, c.internalStartDate, c.internalEndDate)
        previousDate == strAsDate(c.prop, "none")
    IN /\ internalEndDate' =
              IF allowed THEN parsed
              ELSE IF c.text = EmptyStr THEN undefined
              ELSE internalEndDate
       /\ stale' = StaleIf("internalEndDate",
                           \/ allowed
                           \/ c.text = EmptyStr /\ Changed(internalEndDate, undefined))
       /\ endInputValue' =
              IF allowed THEN endInputValue
              ELSE IF ~Falsy(previousDate)
              THEN formatDate(previousDate, display_format)
              ELSE EmptyStr
       /\ calReq' =
              IF ~CalendarMounted THEN NoReq
              ELSE IF allowed
              THEN Req(IF focusCalendar THEN "focusDate" ELSE "setVisibleDate", parsed)
              ELSE IF focusCalendar THEN Req("focusDate", previousDate)
              ELSE NoReq
       /\ UNCHANGED <<internalStartDate, startInputValue>>

clearSelection_AlwaysReopens ==
    /\ internalStartDate' = undefined
    /\ internalEndDate' = undefined
    /\ stale' = StaleIf("internalStartDate", Changed(internalStartDate, undefined))
                \cup StaleIf("internalEndDate", Changed(internalEndDate, undefined))
    /\ isCalendarOpen' = TRUE

\* Lines 218-230.
clearSelection ==
    /\ internalStartDate' = undefined
    /\ internalEndDate' = undefined
    /\ stale' = StaleIf("internalStartDate", Changed(internalStartDate, undefined))
                \cup StaleIf("internalEndDate", Changed(internalEndDate, undefined))
    /\ isCalendarOpen' = IF cfg.reopen_calendar_on_clear THEN TRUE ELSE isCalendarOpen

----------------------------------------------------------------------------
(* The calendar: day cells and the keyboard handler of CalendarMonth       *)

handleKeyDownCommit_NoGate(date, isOutside, showOutsideDays) ==
    ~isOutside \/ showOutsideDays

\* CalendarMonth.handleKeyDown, case ' ' / 'Enter' (lines 121-131): whether
\* onSelectionEnd(date) is called.
handleKeyDownCommit(date, isOutside, showOutsideDays) ==
    /\ ~isDateDisabled(date, minDate, maxDate,
                       disabledDates(internalStartDate, internalEndDate))
    /\ ~isOutside \/ showOutsideDays

\* Calendar, on a keyboard commit: the range is completed at once from the
\* selection it was given.
CalendarKeyboardCommit(date) ==
    IF ~Falsy(internalStartDate) /\ Falsy(internalEndDate)
    THEN handleSelectionChange(internalStartDate, date)
    ELSE handleSelectionChange(date, date)

\* CalendarDay: a pointer press or release on a disabled day is ignored.
CalendarDayAccepts(date) ==
    ~isDateDisabled(date, minDate, maxDate,
                    disabledDates(internalStartDate, internalEndDate))

----------------------------------------------------------------------------
(* Events                                                                  *)

\* The view follows the selection made.
PointerSelect_ShowsSelection(a, b) ==
    /\ Idle /\ CalendarMounted
    /\ Event(Op("pointer", a, b))
    /\ IF CalendarDayAccepts(Date(a)) /\ CalendarDayAccepts(Date(b))
       THEN /\ handleSelectionChange(Date(a), Date(b))
            /\ calReq' = Req("setVisibleDate", Date(a))
       ELSE /\ UNCHANGED <<internalStartDate, internalEndDate, isCalendarOpen, stale>>
            /\ calReq' = NoReq
    /\ UNCHANGED <<cfg, start_date, end_date, startInputValue, endInputValue, frames>>

\* Mouse-down on day a, mouse-up on day b.
PointerSelect(a, b) ==
    /\ Idle /\ CalendarMounted
    /\ Event(Op("pointer", a, b))
    /\ calReq' = NoReq
    /\ IF CalendarDayAccepts(Date(a)) /\ CalendarDayAccepts(Date(b))
       THEN handleSelectionChange(Date(a), Date(b))
       ELSE UNCHANGED <<internalStartDate, internalEndDate, isCalendarOpen, stale>>
    /\ UNCHANGED <<cfg, start_date, end_date, startInputValue, endInputValue, frames>>

\* Enter or Space on the focused day d.  A day of another month has a cell
\* only when show_outside_days is set (createMonthGrid, line 25).
KeyCommit(d, isOutside, showOutsideDays) ==
    /\ Idle /\ CalendarMounted
    /\ isOutside => showOutsideDays
    /\ Event(Op("key", d, d))
    /\ calReq' = NoReq
    /\ IF handleKeyDownCommit(Date(d), isOutside, showOutsideDays)
       THEN CalendarKeyboardCommit(Date(d))
       ELSE UNCHANGED <<internalStartDate, internalEndDate, isCalendarOpen, stale>>
    /\ UNCHANGED <<cfg, start_date, end_date, startInputValue, endInputValue, frames>>

\* The text is committed as it is typed.
EditStart_CommitsOnChange(text) ==
    /\ Idle /\ ~cfg.disabled
    /\ Event(Op("editStart", 0, 0))
    /\ startInputValue' = text
    /\ internalStartDate' = strAsDate(text, display_format)
    /\ stale' = StaleIf("internalStartDate",
                        Changed(internalStartDate, strAsDate(text, display_format)))
    /\ calReq' = NoReq
    /\ UNCHANGED <<cfg, start_date, end_date, internalEndDate,
                   endInputValue, isCalendarOpen, frames>>

\* onChange of the start input (line 336).
EditStart(text) ==
    /\ Idle /\ ~cfg.disabled
    /\ Event(Op("editStart", 0, 0))
    /\ startInputValue' = text
    /\ calReq' = NoReq
    /\ UNCHANGED <<cfg, start_date, end_date, internalStartDate, internalEndDate,
                   endInputValue, isCalendarOpen, stale, frames>>

\* onChange of the end input (line 357).
EditEnd(text) ==
    /\ Idle /\ ~cfg.disabled
    /\ Event(Op("editEnd", 0, 0))
    /\ endInputValue' = text
    /\ calReq' = NoReq
    /\ UNCHANGED <<cfg, start_date, end_date, internalStartDate, internalEndDate,
                   startInputValue, isCalendarOpen, stale, frames>>

\* requestAnimationFrame(() => send...InputAsDate(true)), after the calendar
\* is opened (lines 236-240, 252-256): the callback joins the pending ones.
deferCommit(field, text, prop) ==
    /\ Len(frames) < MaxPending
    /\ Event(Op(IF field = "start" THEN "deferStart" ELSE "deferEnd", 0, 0))
    /\ isCalendarOpen' = TRUE
    /\ frames' = Append(frames, [field |-> field, c |-> Closure(text, prop)])
    /\ calReq' = NoReq
    /\ UNCHANGED <<internalStartDate, internalEndDate, startInputValue,
                   endInputValue, stale>>

\* Lines 232-246.  ArrowUp, ArrowDown and Enter open the calendar and defer
\* the commit to the next animation frame; Tab commits at once.
handleStartInputKeyDown(key) ==
    /\ Idle /\ ~cfg.disabled
    /\ IF key \in {"ArrowUp", "ArrowDown", "Enter"}
       THEN deferCommit("start", startInputValue, start_date)
       ELSE /\ key = "Tab"
            /\ Event(Op("commitStart", 0, 0))
            /\ sendStartInputAsDate(FALSE, Closure(startInputValue, start_date))
            /\ UNCHANGED <<isCalendarOpen, frames>>
    /\ UNCHANGED <<cfg, start_date, end_date>>

\* Lines 248-262.
handleEndInputKeyDown(key) ==
    /\ Idle /\ ~cfg.disabled
    /\ IF key \in {"ArrowUp", "ArrowDown", "Enter"}
       THEN deferCommit("end", endInputValue, end_date)
       ELSE /\ key = "Tab"
            /\ Event(Op("commitEnd", 0, 0))
            /\ sendEndInputAsDate(FALSE, Closure(endInputValue, end_date))
            /\ UNCHANGED <<isCalendarOpen, frames>>
    /\ UNCHANGED <<cfg, start_date, end_date>>

\* onFocus of the start input (lines 338-342).
StartInputFocus ==
    /\ Idle /\ ~cfg.disabled
    /\ isCalendarOpen
    /\ Event(Op("commitStart", 0, 0))
    /\ sendStartInputAsDate(FALSE, Closure(startInputValue, start_date))
    /\ UNCHANGED <<cfg, start_date, end_date, isCalendarOpen, frames>>

\* onFocus of the end input (lines 359-363).
EndInputFocus ==
    /\ Idle /\ ~cfg.disabled
    /\ isCalendarOpen
    /\ Event(Op("commitEnd", 0, 0))
    /\ sendEndInputAsDate(FALSE, Closure(endInputValue, end_date))
    /\ UNCHANGED <<cfg, start_date, end_date, isCalendarOpen, frames>>

\* The oldest animation-frame callback runs: send...InputAsDate(true).
AnimationFrame ==
    /\ stale = {}
    /\ frames # <<>>
    /\ LET f == Head(frames)
       IN IF f.field = "start"
          THEN /\ Event(Op("commitStart", 0, 0))
               /\ sendStartInputAsDate(TRUE, f.c)
          ELSE /\ Event(Op("commitEnd", 0, 0))
               /\ sendEndInputAsDate(TRUE, f.c)
    /\ frames' = Tail(frames)
    /\ UNCHANGED <<cfg, start_date, end_date, isCalendarOpen>>

ClearClick_IgnoresDisabled ==
    /\ Idle
    /\ cfg.clearable
    /\ Event(Op("clear", 0, 0))
    /\ clearSelection
    /\ calReq' = NoReq
    /\ UNCHANGED <<cfg, start_date, end_date, startInputValue, endInputValue, frames>>

\* A click on the clear control (lines 369-377).
ClearClick ==
    /\ Idle
    /\ cfg.clearable /\ ~cfg.disabled
    /\ Event(Op("clear", 0, 0))
    /\ clearSelection
    /\ calReq' = NoReq
    /\ UNCHANGED <<cfg, start_date, end_date, startInputValue, endInputValue, frames>>

\* A click on the wrapper (lines 321-326).
WrapperClick ==
    /\ Idle
    /\ Event(Op("click", 0, 0))
    /\ isCalendarOpen' = IF ~isCalendarOpen /\ ~cfg.disabled THEN TRUE
                         ELSE isCalendarOpen
    /\ calReq' = NoReq
    /\ UNCHANGED <<cfg, start_date, end_date, internalStartDate, internalEndDate,
                   startInputValue, endInputValue, stale, frames>>

\* Popover.Root onOpenChange (line 310): the popover is dismissed.
PopoverDismiss ==
    /\ Idle
    /\ ~cfg.disabled /\ isCalendarOpen
    /\ Event(Op("dismiss", 0, 0))
    /\ isCalendarOpen' = FALSE
    /\ calReq' = NoReq
    /\ UNCHANGED <<cfg, start_date, end_date, internalStartDate, internalEndDate,
                   startInputValue, endInputValue, stale, frames>>

\* A range the host may hold: ordered when both ends are set.
Ordered(s, e) == Falsy(s) \/ Falsy(e) \/ s.day <= e.day

\* The host changes start_date and/or end_date; lastOp tells which (1: changed).
HostSetProps(s, e) ==
    /\ Idle
    /\ <<s, e>> # <<start_date, end_date>>
    /\ Ordered(s, e)
    /\ Event(Op("host", IF s # start_date THEN 1 ELSE 0,
                 IF e # end_date THEN 1 ELSE 0))
    /\ start_date' = s
    /\ end_date' = e
    /\ stale' = StaleIf("start_date", s # start_date)
                \cup StaleIf("end_date", e # end_date)
    /\ calReq' = NoReq
    /\ UNCHANGED <<cfg, internalStartDate, internalEndDate, startInputValue,
                   endInputValue, isCalendarOpen, frames>>

----------------------------------------------------------------------------

\* The first render: lines 55-58 and 93-99; every effect runs after it.
Init ==
    /\ cfg \in Configs
    /\ start_date \in WireValues
    /\ end_date \in WireValues
    /\ Ordered(start_date, end_date)
    /\ internalStartDate = strAsDate(start_date, "none")
    /\ internalEndDate = strAsDate(end_date, "none")
    /\ startInputValue = formatDate(strAsDate(start_date, "none"), display_format)
    /\ endInputValue = formatDate(strAsDate(end_date, "none"), display_format)
    /\ isCalendarOpen = FALSE
    /\ stale = {"start_date", "end_date", "internalStartDate", "internalEndDate"}
    /\ frames = <<>>
    /\ setPropsCalls = <<>>
    /\ calReq = NoReq
    /\ lastOp = Op("mount", 0, 0)
    /\ numberOfMonthsShown = 1
    /\ visibleMonths = <<>>
    /\ MonthNotRendered
    /\ SideAtRest

Next ==
    \/ RunEffects
    \/ AnimationFrame
    \/ \E a, b \in Days : PointerSelect(a, b)
    \/ \E d \in Days, isOutside, showOutsideDays \in BOOLEAN :
           KeyCommit(d, isOutside, showOutsideDays)
    \/ \E text \in Texts : EditStart(text)
    \/ \E text \in Texts : EditEnd(text)
    \/ \E key \in {"ArrowUp", "ArrowDown", "Enter", "Tab"} : handleStartInputKeyDown(key)
    \/ \E key \in {"ArrowUp", "ArrowDown", "Enter", "Tab"} : handleEndInputKeyDown(key)
    \/ StartInputFocus
    \/ EndInputFocus
    \/ ClearClick
    \/ WrapperClick
    \/ PopoverDismiss
    \/ \E s, e \in WireValues : HostSetProps(s, e)

Spec == Init /\ [][Next]_vars

\* The events of the user alone: the host only applies what setProps sends.
UserNext ==
    \/ RunEffects
    \/ AnimationFrame
    \/ \E a, b \in Days : PointerSelect(a, b)
    \/ \E d \in Days, isOutside, showOutsideDays \in BOOLEAN :
           KeyCommit(d, isOutside, showOutsideDays)
    \/ \E text \in Texts : EditStart(text)
    \/ \E text \in Texts : EditEnd(text)
    \/ \E key \in {"ArrowUp", "ArrowDown", "Enter", "Tab"} : handleStartInputKeyDown(key)
    \/ \E key \in {"ArrowUp", "ArrowDown", "Enter", "Tab"} : handleEndInputKeyDown(key)
    \/ StartInputFocus
    \/ EndInputFocus
    \/ ClearClick
    \/ WrapperClick
    \/ PopoverDismiss

SpecUser == Init /\ [][UserNext]_vars

\* The user's events on a component mounted without dates.
InitEmpty == Init /\ start_date = undefined /\ end_date = undefined

SpecFromEmpty == InitEmpty /\ [][UserNext]_vars

\* The host changes the disabled prop.  No effect depends on it; the popover
\* is rendered open only while it is false (line 309).
HostSetDisabled(disabled) ==
    /\ Idle
    /\ disabled # cfg.disabled
    /\ Event(Op("disable", 0, 0))
    /\ cfg' = [cfg EXCEPT !.disabled = disabled]
    /\ calReq' = NoReq
    /\ UNCHANGED <<start_date, end_date, internalStartDate, internalEndDate,
                   startInputValue, endInputValue, isCalendarOpen, stale, frames>>

\* The component with the default props, enabled or disabled, the host
\* changing disabled as well as the dates.
InitHostDisables ==
    Init /\ cfg \in {DefaultConfig, [DefaultConfig EXCEPT !.disabled = TRUE]}

NextHostDisables ==
    \/ Next
    \/ \E disabled \in BOOLEAN : HostSetDisabled(disabled)

SpecHostDisables == InitHostDisables /\ [][NextHostDisables]_vars

\* A second ArrowUp, ArrowDown or Enter in an input before the animation
\* frame the first one asked for: the handlers of lines 232-262 run again, on
\* the render that followed the first press.
RepeatStartInputKeyDown(key) ==
    /\ stale = {} /\ frames # <<>>
    /\ ~cfg.disabled
    /\ key \in {"ArrowUp", "ArrowDown", "Enter"}
    /\ deferCommit("start", startInputValue, start_date)
    /\ UNCHANGED <<cfg, start_date, end_date>>

RepeatEndInputKeyDown(key) ==
    /\ stale = {} /\ frames # <<>>
    /\ ~cfg.disabled
    /\ key \in {"ArrowUp", "ArrowDown", "Enter"}
    /\ deferCommit("end", endInputValue, end_date)
    /\ UNCHANGED <<cfg, start_date, end_date>>

\* The component with the default props, keys arriving faster than frames.
InitPending == Init /\ cfg = DefaultConfig

NextPending ==
    \/ Next
    \/ \E key \in {"ArrowUp", "ArrowDown", "Enter"} : RepeatStartInputKeyDown(key)
    \/ \E key \in {"ArrowUp", "ArrowDown", "Enter"} : RepeatEndInputKeyDown(key)

SpecPending == InitPending /\ [][NextPending]_vars

----------------------------------------------------------------------------
(* The disabled set on its own: the useMemo over every state of the two    *)
(* dates it depends on, with days far enough apart for the minimum-nights  *)
(* zone to lie inside them.                                                *)

\* Days explored for the disabled set: 0..MaxNightDay.
MaxNightDay == 13
\* minimum_nights explored: 0..MaxNights.
MaxNights == 3

NightDays == 0..MaxNightDay

NightsConfigs ==
    {[DefaultConfig EXCEPT !.minimum_nights = n, !.disabled_days = dd] :
        n \in 0..MaxNights,
        dd \in {{}, {Str("iso", 9)}, {Str("isotime", 0), Str("iso", 12)}}}

InternalDates == {undefined} \cup {Date(d) : d \in NightDays}

\* The state setters of lines 55-58, called with any date by the handlers; the
\* next render recomputes the memo.  The component starts with no dates.
setInternalStartDate(v) ==
    /\ internalStartDate' = v
    /\ UNCHANGED <<cfg, start_date, end_date, internalEndDate, startInputValue,
                   endInputValue, isCalendarOpen, stale, frames, setPropsCalls,
                   calReq, lastOp, numberOfMonthsShown, visibleMonths>>
    /\ UNCHANGED <<monthVars, sideVars>>

setInternalEndDate(v) ==
    /\ internalEndDate' = v
    /\ UNCHANGED <<cfg, start_date, end_date, internalStartDate, startInputValue,
                   endInputValue, isCalendarOpen, stale, frames, setPropsCalls,
                   calReq, lastOp, numberOfMonthsShown, visibleMonths>>
    /\ UNCHANGED <<monthVars, sideVars>>

InitDisabled ==
    /\ cfg \in NightsConfigs
    /\ start_date = undefined
    /\ end_date = undefined
    /\ internalStartDate = strAsDate(start_date, "none")
    /\ internalEndDate = strAsDate(end_date, "none")
    /\ startInputValue = formatDate(internalStartDate, display_format)
    /\ endInputValue = formatDate(internalEndDate, display_format)
    /\ isCalendarOpen = FALSE
    /\ stale = {}
    /\ frames = <<>>
    /\ setPropsCalls = <<>>
    /\ calReq = NoReq
    /\ lastOp = Op("mount", 0, 0)
    /\ numberOfMonthsShown = 1
    /\ visibleMonths = <<>>
    /\ MonthNotRendered
    /\ SideAtRest

NextDisabled ==
    \/ \E v \in InternalDates : setInternalStartDate(v)
    \/ \E v \in InternalDates : setInternalEndDate(v)

SpecDisabled == InitDisabled /\ [][NextDisabled]_vars

----------------------------------------------------------------------------
(* The calendar's visible window (utils/calendar/Calendar): the months     *)
(* rendered and the two calls of its handle, setVisibleDate and focusDate. *)
(* A calendar date is a record [year, month, date], months 0..11 as in a   *)
(* JavaScript Date; a month is a record [year, month].                     *)

\* The year of the dates explored, and how many years around it.
BaseYear == 2024
YearSpan == 1
\* numberOfMonthsShown explored: 1..MaxMonthsShown.
MaxMonthsShown == 4

CalYears == (BaseYear - YearSpan)..(BaseYear + YearSpan)
CalDate(y, m, d) == [form |-> "Date", year |-> y, month |-> m, date |-> d]
CalDates == {CalDate(y, m, d) : y \in CalYears, m \in 0..11, d \in {1, 15}}

YearMonth(y, m) == [year |-> y, month |-> m]
startOfMonth(date) == YearMonth(date.year, date.month)

\* date-fns addMonths on the first of a month: the month number carries into
\* the year.
addMonths(ym, k) ==
    LET t == ym.year * 12 + ym.month + k
    IN YearMonth(t \div 12, t % 12)

isSameMonth(a, b) == a.year = b.year /\ a.month = b.month
isBeforeMonth(a, b) == a.year < b.year \/ (a.year = b.year /\ a.month < b.month)

\* n months in a row, from `first`.
MonthsFrom(first, n) == [i \in 1..n |-> addMonths(first, i - 1)]

InitialWindow_FromTarget(initialVisibleDate, n) ==
    MonthsFrom(startOfMonth(initialVisibleDate), n)

InitialWindow_Centered(initialVisibleDate, n) ==
    MonthsFrom(addMonths(startOfMonth(initialVisibleDate), -(n \div 2)), n)

\* The months shown at first: (n - 1) div 2 months before the month of
\* initialVisibleDate, that month, and the months after it.
InitialWindow(initialVisibleDate, n) ==
    MonthsFrom(addMonths(startOfMonth(initialVisibleDate), -((n - 1) \div 2)), n)

moveWindow_Recenters(window, target) ==
    IF isBeforeMonth(window[Len(window)], target)
    THEN MonthsFrom(addMonths(target, -(Len(window) - 1)), Len(window))
    ELSE IF isBeforeMonth(target, window[1])
    THEN MonthsFrom(target, Len(window))
    ELSE InitialWindow(CalDate(target.year, target.month, 1), Len(window))

moveWindow_TargetFirst(window, target) ==
    IF \E i \in 1..Len(window) : isSameMonth(window[i], target) THEN window
    ELSE MonthsFrom(target, Len(window))

moveWindow_ReplaceLast(window, target) ==
    IF \E i \in 1..Len(window) : isSameMonth(window[i], target) THEN window
    ELSE IF isBeforeMonth(window[Len(window)], target)
    THEN [window EXCEPT ![Len(window)] = target]
    ELSE MonthsFrom(target, Len(window))

\* The window after a request to show the month `target`: unchanged when the
\* month is shown, else shifted so that the month is the last one shown (a
\* later month) or the first (an earlier month).
moveWindow(window, target) ==
    IF \E i \in 1..Len(window) : isSameMonth(window[i], target) THEN window
    ELSE IF isBeforeMonth(window[Len(window)], target)
    THEN MonthsFrom(addMonths(target, -(Len(window) - 1)), Len(window))
    ELSE MonthsFrom(target, Len(window))

\* The controller's variables, which the calendar does not touch.
controllerVars == <<cfg, start_date, end_date, internalStartDate, internalEndDate,
                    startInputValue, endInputValue, isCalendarOpen, stale, frames,
                    setPropsCalls, lastOp>>

\* CalendarHandle.setVisibleDate(date); calReq records the call.
setVisibleDate(date) ==
    /\ visibleMonths' = moveWindow(visibleMonths, startOfMonth(date))
    /\ calReq' = Req("setVisibleDate", date)
    /\ UNCHANGED <<controllerVars, numberOfMonthsShown, monthVars, sideVars>>

\* CalendarHandle.focusDate(date): setVisibleDate, and the focus moves to the date.
focusDate(date) ==
    /\ visibleMonths' = moveWindow(visibleMonths, startOfMonth(date))
    /\ calReq' = Req("focusDate", date)
    /\ UNCHANGED <<controllerVars, numberOfMonthsShown, monthVars, sideVars>>

\* The calendar as rendered first, in an open popover; calReq records the
\* initialVisibleDate it was given.
InitCalendar ==
    /\ cfg = DefaultConfig
    /\ start_date = undefined
    /\ end_date = undefined
    /\ internalStartDate = undefined
    /\ internalEndDate = undefined
    /\ startInputValue = EmptyStr
    /\ endInputValue = EmptyStr
    /\ isCalendarOpen = TRUE
    /\ stale = {}
    /\ frames = <<>>
    /\ setPropsCalls = <<>>
    /\ lastOp = Op("click", 0, 0)
    /\ MonthNotRendered
    /\ SideAtRest
    /\ numberOfMonthsShown \in 1..MaxMonthsShown
    /\ \E initialVisibleDate \in CalDates :
           /\ visibleMonths = InitialWindow(initialVisibleDate, numberOfMonthsShown)
           /\ calReq = Req("mount", initialVisibleDate)

NextCalendar ==
    \/ \E date \in CalDates : setVisibleDate(date)
    \/ \E date \in CalDates : focusDate(date)

SpecCalendar == InitCalendar /\ [][NextCalendar]_vars

----------------------------------------------------------------------------
(* One month of the calendar: utils/calendar/createMonthGrid and           *)
(* utils/calendar/CalendarMonth.  Here a Date is Date(n) with n the number *)
(* of its day in the proleptic Gregorian calendar, day 1 being Monday      *)
(* 1 January of year 1, so that the weekday, month and year of a date are  *)
(* computed, not assumed.                                                  *)

null == [form |-> "null", day |-> 0]

isLeapYear(y) == (y % 4 = 0 /\ y % 100 # 0) \/ y % 400 = 0

\* Days of month m (0..11) of year y.
DaysInMonthOf(y, m) ==
    CASE m = 1 -> IF isLeapYear(y) THEN 29 ELSE 28
      [] m \in {3, 5, 8, 10} -> 30
      [] OTHER -> 31

\* Days before 1 January of year y.
DaysBeforeYear(y) ==
    LET p == y - 1
    IN 365 * p + (p \div 4) - (p \div 100) + (p \div 400)

\* Days of year y before the first of month m (0..11; 12 is the next January).
DaysBeforeMonth(y, m) ==
    <<0, 31, 59, 90, 120, 151, 181, 212, 243, 273, 304, 334, 365>>[m + 1]
        + (IF m > 1 /\ isLeapYear(y) THEN 1 ELSE 0)

\* new Date(year, month, day), month 0..11.
NewDate(y, m, d) == Date(DaysBeforeYear(y) + DaysBeforeMonth(y, m) + d)

\* The years a date of a grid or a key target can fall in.
DateYears == (BaseYear - YearSpan - 1)..(BaseYear + YearSpan + 1)

getYear(date) ==
    CHOOSE y \in DateYears :
        DaysBeforeYear(y) < date.day /\ date.day <= DaysBeforeYear(y + 1)

getMonth(date) ==
    LET y == getYear(date)
        n == date.day - DaysBeforeYear(y)
    IN CHOOSE m \in 0..11 :
           DaysBeforeMonth(y, m) < n /\ n <= DaysBeforeMonth(y, m) + DaysInMonthOf(y, m)

getDate(date) ==
    date.day - DaysBeforeYear(getYear(date))
        - DaysBeforeMonth(getYear(date), getMonth(date))

\* Weekday, 0 = Sunday.
getDay(date) == date.day % 7

getDaysInMonth(date) == DaysInMonthOf(getYear(date), getMonth(date))

\* Math.ceil(a / b) for a >= 0, b > 0.
MathCeil(a, b) == (a + b - 1) \div b

createMonthGrid_NoPadding(year, month, firstDayOfWeek, showOutsideDays) ==
    LET firstDay == NewDate(year, month, 1)
        offset == (getDay(firstDay) - firstDayOfWeek + 7) % 7
        startDate == addDays(firstDay, -offset)
    IN [week \in 0..5 |->
           [day \in 0..6 |->
               LET date == addDays(startDate, week * 7 + day)
               IN IF showOutsideDays \/ getMonth(date) = month THEN date
                  ELSE null]]

createMonthGrid_SundayFirst(year, month, firstDayOfWeek, showOutsideDays) ==
    LET firstDay == NewDate(year, month, 1)
        offset == getDay(firstDay)
        startDate == addDays(firstDay, -offset)
        weeksNeeded == MathCeil(offset + getDaysInMonth(firstDay), 7)
    IN [week \in 0..5 |->
           [day \in 0..6 |->
               IF week >= weeksNeeded THEN null
               ELSE LET date == addDays(startDate, week * 7 + day)
                    IN IF showOutsideDays \/ getMonth(date) = month THEN date
                       ELSE null]]

createMonthGrid_KeepOutside(year, month, firstDayOfWeek, showOutsideDays) ==
    LET firstDay == NewDate(year, month, 1)
        offset == (getDay(firstDay) - firstDayOfWeek + 7) % 7
        startDate == addDays(firstDay, -offset)
        weeksNeeded == MathCeil(offset + getDaysInMonth(firstDay), 7)
    IN [week \in 0..5 |->
           [day \in 0..6 |->
               IF week >= weeksNeeded THEN null
               ELSE addDays(startDate, week * 7 + day)]]

\* A grid of five weeks.
createMonthGrid_FiveWeeks(year, month, firstDayOfWeek, showOutsideDays) ==
    LET firstDay == NewDate(year, month, 1)
        offset == (getDay(firstDay) - firstDayOfWeek + 7) % 7
        startDate == addDays(firstDay, -offset)
        weeksNeeded == MathCeil(offset + getDaysInMonth(firstDay), 7)
    IN [week \in 0..5 |->
           [day \in 0..6 |->
               IF week >= weeksNeeded \/ week >= 5 THEN null
               ELSE LET date == addDays(startDate, week * 7 + day)
                    IN IF showOutsideDays \/ getMonth(date) = month THEN date
                       ELSE null]]

\* The grid of a month: 6 weeks (0..5) of 7 cells (0..6), each a Date or null.
createMonthGrid(year, month, firstDayOfWeek, showOutsideDays) ==
    LET firstDay == NewDate(year, month, 1)
        offset == (getDay(firstDay) - firstDayOfWeek + 7) % 7
        startDate == addDays(firstDay, -offset)
        weeksNeeded == MathCeil(offset + getDaysInMonth(firstDay), 7)
    IN [week \in 0..5 |->
           [day \in 0..6 |->
               IF week >= weeksNeeded THEN null
               ELSE LET date == addDays(startDate, week * 7 + day)
                    IN IF showOutsideDays \/ getMonth(date) = month THEN date
                       ELSE null]]

\* CalendarMonth's memoised grid, of its props.
useMemoGridDates(props) ==
    createMonthGrid(props.year, props.month, props.firstDayOfWeek,
                    props.showOutsideDays)

\* The calendar renders the month (year, month) with the week starting on
\* firstDayOfWeek, days of other months shown or not.
RenderMonth(year, month, firstDayOfWeek, showOutsideDays) ==
    /\ monthProps' = [monthProps EXCEPT !.year = year, !.month = month,
                                        !.firstDayOfWeek = firstDayOfWeek,
                                        !.showOutsideDays = showOutsideDays]
    /\ gridDates' = useMemoGridDates(monthProps')
    /\ visibleMonths' = <<YearMonth(year, month)>>
    /\ UNCHANGED <<controllerVars, numberOfMonthsShown, calReq, dateFocused,
                   monthCall, sideVars>>

\* An open calendar of one month, any month with any week start.
InitGrid ==
    /\ cfg = DefaultConfig
    /\ start_date = undefined
    /\ end_date = undefined
    /\ internalStartDate = undefined
    /\ internalEndDate = undefined
    /\ startInputValue = EmptyStr
    /\ endInputValue = EmptyStr
    /\ isCalendarOpen = TRUE
    /\ stale = {}
    /\ frames = <<>>
    /\ setPropsCalls = <<>>
    /\ lastOp = Op("click", 0, 0)
    /\ calReq = NoReq
    /\ numberOfMonthsShown = 1
    /\ dateFocused = undefined
    /\ monthCall = NoCall
    /\ SideAtRest
    /\ \E year \in CalYears, month \in 0..11, firstDayOfWeek \in 0..6,
          showOutsideDays \in BOOLEAN :
           /\ monthProps = [NoMonthProps EXCEPT !.year = year, !.month = month,
                                                !.firstDayOfWeek = firstDayOfWeek,
                                                !.showOutsideDays = showOutsideDays]
           /\ gridDates = useMemoGridDates(monthProps)
           /\ visibleMonths = <<YearMonth(year, month)>>

\* The calendar shows another month, or is given other layout props.
NextGrid ==
    \/ \E year \in CalYears, month \in 0..11 :
           RenderMonth(year, month, monthProps.firstDayOfWeek,
                       monthProps.showOutsideDays)
    \/ \E firstDayOfWeek \in 0..6, showOutsideDays \in BOOLEAN :
           RenderMonth(monthProps.year, monthProps.month, firstDayOfWeek,
                       showOutsideDays)

SpecGrid == InitGrid /\ [][NextGrid]_vars

----------------------------------------------------------------------------
(* Keys on the focused day of the month: CalendarMonth.handleKeyDown.      *)

\* The focus is explored over the days of months 0..KeyMonths of BaseYear.
KeyMonths == 2

KeyDays == NewDate(BaseYear, 0, 1).day .. (NewDate(BaseYear, KeyMonths + 1, 1).day - 1)

Keys == {"Enter", " ", "ArrowRight", "ArrowLeft", "ArrowDown", "ArrowUp",
         "PageDown", "PageUp", "Home", "End", "Tab"}

\* Bounds explored: a date, and a date with a time of day.
KeyMin == NewDate(BaseYear, 1, 10)
KeyMax == [form |-> "DateTime", day |-> NewDate(BaseYear, 2, 20).day]
KeyBounds == {KeyMin, KeyMax}

\* minDateAllowed, maxDateAllowed, disabledDates explored: no constraint, one
\* bound, both, and both the wrong way round.
\* firstDayOfWeek, direction, showOutsideDays explored.
KeyLayouts ==
    {<<0, "ltr", TRUE>>, <<1, "rtl", TRUE>>, <<3, "rtl", FALSE>>,
     <<6, "ltr", FALSE>>}

KeyConstraints ==
    {<<undefined, undefined, {}>>,
     <<KeyMin, undefined, {}>>,
     <<undefined, KeyMax, {NewDate(BaseYear, 1, 14)}>>,
     <<KeyMin, KeyMax, {NewDate(BaseYear, 1, 14)}>>,
     <<KeyMax, KeyMin, {}>>}

addWeeks(date, n) == addDays(date, 7 * n)
subWeeks(date, n) == addWeeks(date, -n)

\* date-fns addMonths on a Date: the same day of the month `amount` months
\* on, or the last day of that month when it is shorter.
dateAddMonths(date, amount) ==
    LET t == getYear(date) * 12 + getMonth(date) + amount
        y == t \div 12
        m == t % 12
        dayOfMonth == getDate(date)
    IN IF dayOfMonth >= DaysInMonthOf(y, m) THEN NewDate(y, m, DaysInMonthOf(y, m))
       ELSE NewDate(y, m, dayOfMonth)
dateSubMonths(date, amount) == dateAddMonths(date, -amount)

startOfWeek(date, weekStartsOn) ==
    LET day == getDay(date)
        diff == (IF day < weekStartsOn THEN 7 ELSE 0) + day - weekStartsOn
    IN Date(date.day - diff)

\* endOfWeek keeps the last millisecond of the day.
endOfWeek(date, weekStartsOn) ==
    LET day == getDay(date)
        diff == (IF day < weekStartsOn THEN -7 ELSE 0) + 6 - (day - weekStartsOn)
    IN [form |-> "DateTime", day |-> date.day + diff]

isDisabled(date) ==
    isDateDisabled(date, monthProps.minDateAllowed, monthProps.maxDateAllowed,
                   monthProps.disabledDates)

computeIsOutside(date) == getMonth(date) # monthProps.month

\* A cell of the grid has the focus if it holds the day of dateFocused.
isFocused(date) == date # null /\ isSameDay(date, dateFocused)

\* The calendar's onDayFocused: the day becomes the focused one, and the
\* month rendered is the month of that day.
onDayFocused(date) ==
    /\ dateFocused' = date
    /\ monthProps' = [monthProps EXCEPT !.year = getYear(date),
                                        !.month = getMonth(date)]
    /\ gridDates' = IF monthProps' = monthProps THEN gridDates
                    ELSE useMemoGridDates(monthProps')
    /\ visibleMonths' = <<YearMonth(getYear(date), getMonth(date))>>

\* The date a navigation key asks the focus to move to.
newDateOf(key, date) ==
    CASE key = "ArrowRight" ->
             IF monthProps.direction = "rtl" THEN subDays(date, 1)
             ELSE addDays(date, 1)
      [] key = "ArrowLeft" ->
             IF monthProps.direction = "rtl" THEN addDays(date, 1)
             ELSE subDays(date, 1)
      [] key = "ArrowDown" -> addWeeks(date, 1)
      [] key = "ArrowUp" -> subWeeks(date, 1)
      [] key = "PageDown" -> dateAddMonths(date, 1)
      [] key = "PageUp" -> dateSubMonths(date, 1)
      [] key = "Home" -> startOfWeek(date, monthProps.firstDayOfWeek)
      [] key = "End" -> endOfWeek(date, monthProps.firstDayOfWeek)

handleKeyDown_NoRangeCheck(key, date) ==
    IF key \in {" ", "Enter"}
    THEN /\ monthCall' =
                IF ~isDisabled(date)
                       /\ (~computeIsOutside(date) \/ monthProps.showOutsideDays)
                THEN Call(key, "onSelectionEnd", date)
                ELSE Call(key, "none", undefined)
         /\ UNCHANGED <<monthProps, gridDates, dateFocused, visibleMonths>>
    ELSE IF key \in {"ArrowRight", "ArrowLeft", "ArrowDown", "ArrowUp",
                     "PageDown", "PageUp", "Home", "End"}
    THEN LET newDate == newDateOf(key, date)
         IN /\ monthCall' = Call(key, "onDayFocused", newDate)
            /\ onDayFocused(newDate)
    ELSE /\ monthCall' = Call(key, "none", undefined)
         /\ UNCHANGED <<monthProps, gridDates, dateFocused, visibleMonths>>

\* handleKeyDown(e, date), date being the day of the cell the key was pressed
\* on: Enter and Space select an enabled day; a navigation key asks for the
\* focus to move if the target is within the bounds; other keys do nothing.
handleKeyDown(key, date) ==
    IF key \in {" ", "Enter"}
    THEN /\ monthCall' =
                IF ~isDisabled(date)
                       /\ (~computeIsOutside(date) \/ monthProps.showOutsideDays)
                THEN Call(key, "onSelectionEnd", date)
                ELSE Call(key, "none", undefined)
         /\ UNCHANGED <<monthProps, gridDates, dateFocused, visibleMonths>>
    ELSE IF key \in {"ArrowRight", "ArrowLeft", "ArrowDown", "ArrowUp",
                     "PageDown", "PageUp", "Home", "End"}
    THEN LET newDate == newDateOf(key, date)
         IN IF isDateInRange(newDate, monthProps.minDateAllowed,
                             monthProps.maxDateAllowed)
            THEN /\ monthCall' = Call(key, "onDayFocused", newDate)
                 /\ onDayFocused(newDate)
            ELSE /\ monthCall' = Call(key, "none", undefined)
                 /\ UNCHANGED <<monthProps, gridDates, dateFocused, visibleMonths>>
    ELSE /\ monthCall' = Call(key, "none", undefined)
         /\ UNCHANGED <<monthProps, gridDates, dateFocused, visibleMonths>>

\* A key pressed on a cell of the grid, which holds `date`.  Presses that
\* would take the focus out of the days explored are left out.
KeyDown(key, date) ==
    /\ key \in {"ArrowRight", "ArrowLeft", "ArrowDown", "ArrowUp", "PageDown",
                "PageUp", "Home", "End"}
       => newDateOf(key, date).day \in KeyDays
    /\ handleKeyDown(key, date)
    /\ UNCHANGED <<controllerVars, numberOfMonthsShown, calReq, sideVars>>

\* An open calendar of one month with a focused day in it.
InitMonthKeys ==
    /\ cfg = DefaultConfig
    /\ start_date = undefined
    /\ end_date = undefined
    /\ internalStartDate = undefined
    /\ internalEndDate = undefined
    /\ startInputValue = EmptyStr
    /\ endInputValue = EmptyStr
    /\ isCalendarOpen = TRUE
    /\ stale = {}
    /\ frames = <<>>
    /\ setPropsCalls = <<>>
    /\ lastOp = Op("click", 0, 0)
    /\ calReq = NoReq
    /\ numberOfMonthsShown = 1
    /\ monthCall = NoCall
    /\ SideAtRest
    /\ \E n \in KeyDays, k \in KeyConstraints, l \in KeyLayouts :
           /\ dateFocused = Date(n)
           /\ monthProps = [year |-> getYear(Date(n)), month |-> getMonth(Date(n)),
                            firstDayOfWeek |-> l[1], direction |-> l[2],
                            showOutsideDays |-> l[3],
                            minDateAllowed |-> k[1], maxDateAllowed |-> k[2],
                            disabledDates |-> k[3]]
           /\ gridDates = useMemoGridDates(monthProps)
           /\ visibleMonths = <<YearMonth(getYear(Date(n)), getMonth(Date(n)))>>

\* Keys go to the cell that has the focus.
NextMonthKeys ==
    \E r \in 0..5, c \in 0..6 :
        /\ isFocused(gridDates[r][c])
        /\ \E key \in Keys : KeyDown(key, gridDates[r][c])

SpecMonthKeys == InitMonthKeys /\ [][NextMonthKeys]_vars

----------------------------------------------------------------------------
(* The date codec with its formats: utils/calendar/helpers.  A display     *)
(* format is the set of its moment.js tokens, written with separators      *)
(* between them; a text is what each token printed.  Dates are calendar    *)
(* dates [year, month, date], months 0..11.                                *)

MomentTokens == {"YYYY", "YY", "MM", "DD", "D", "Do", "dd", "X"}

\* The replacements in another order: DD -> dd before dd -> EEEEEE.
convertToken_DayFirst(token) ==
    CASE token \in {"dd", "DD"} -> "EEEEEE"
      [] token = "Do" -> "do"
      [] token = "YYYY" -> "yyyy"
      [] token = "YY" -> "yy"
      [] token = "D" -> "d"
      [] token = "X" -> "t"
      [] OTHER -> token

\* Lines 61-70, token by token: each replacement leaves nothing that a later
\* one matches.
convertToken(token) ==
    CASE token = "dd" -> "EEEEEE"
      [] token = "Do" -> "do"
      [] token = "YYYY" -> "yyyy"
      [] token = "YY" -> "yy"
      [] token = "DD" -> "dd"
      [] token = "D" -> "d"
      [] token = "X" -> "t"
      [] OTHER -> token

convertFormatTokens(momentFormat) == {convertToken(token) : token \in momentFormat}

throws == [form |-> "throws"]
InvalidDate == [form |-> "Invalid Date"]

\* The years a parsed date can fall in.
CodecYearRange == (BaseYear - 76)..(BaseYear + 30)

dayOfCalDate(date) == NewDate(date.year, date.month, date.date).day

\* The calendar date of day number n.
calDateOfDay(n) ==
    LET y == CHOOSE y \in CodecYearRange :
                 DaysBeforeYear(y) < n /\ n <= DaysBeforeYear(y + 1)
        m == CHOOSE m \in 0..11 :
                 /\ DaysBeforeMonth(y, m) < n - DaysBeforeYear(y)
                 /\ n - DaysBeforeYear(y) <= DaysBeforeMonth(y, m) + DaysInMonthOf(y, m)
    IN CalDate(y, m, n - DaysBeforeYear(y) - DaysBeforeMonth(y, m))

\* date-fns format: what each token prints.  t prints the instant, here the
\* day number of the whole-day date.
dateFnsFormat(date, tokens) ==
    [fmt |-> tokens,
     val |-> [token \in tokens |->
                 CASE token = "yyyy" -> date.year
                   [] token = "yy" -> date.year % 100
                   [] token = "MM" -> date.month
                   [] token \in {"dd", "d", "do"} -> date.date
                   [] token = "EEEEEE" -> dayOfCalDate(date) % 7
                   [] token = "t" -> dayOfCalDate(date)]]

\* Lines 72-78, for a date.
formatDateTokens(date, formatStr) ==
    dateFnsFormat(date, convertFormatTokens(formatStr))

\* The field of date-fns a token sets: its first character.
TokenField(token) ==
    CASE token \in {"yyyy", "yy"} -> "y"
      [] token \in {"dd", "d", "do"} -> "d"
      [] token = "EEEEEE" -> "E"
      [] token = "t" -> "t"
      [] OTHER -> "M"

\* date-fns: a two-digit year is read within 50 years of the reference year.
normalizeTwoDigitYear(twoDigitYear, currentYear) ==
    LET rangeEnd == currentYear + 50
        rangeEndCentury == (rangeEnd \div 100) * 100
    IN twoDigitYear + rangeEndCentury
           - (IF twoDigitYear >= rangeEnd % 100 THEN 100 ELSE 0)

\* date-fns parse(dateStr, format, referenceDate).  Two tokens of one field,
\* or t with any other token, throw.  Otherwise the fields are set on the
\* reference date from the year down: setting the year resets month and day
\* to 1 January, setting the month resets the day to 1, a day of the month is
\* checked against the month's length; the day of the week is applied only
\* when no day of the month is given, and moves the date within its week.
dateFnsParse(dateStr, tokens, referenceDate) ==
    IF \/ \E a, b \in tokens : a # b /\ TokenField(a) = TokenField(b)
       \/ "t" \in tokens /\ tokens # {"t"}
    THEN throws
    ELSE IF dateStr.fmt # tokens THEN InvalidDate
    ELSE IF "t" \in tokens THEN calDateOfDay(dateStr.val["t"])
    ELSE LET hasY == \E token \in tokens : TokenField(token) = "y"
             hasM == "MM" \in tokens
             hasD == \E token \in tokens : TokenField(token) = "d"
             y == IF "yyyy" \in tokens THEN dateStr.val["yyyy"]
                  ELSE IF "yy" \in tokens
                  THEN normalizeTwoDigitYear(dateStr.val["yy"], referenceDate.year)
                  ELSE referenceDate.year
             m == IF hasM THEN dateStr.val["MM"]
                  ELSE IF hasY THEN 0
                  ELSE referenceDate.month
             d == IF hasD
                  THEN dateStr.val[CHOOSE token \in tokens : TokenField(token) = "d"]
                  ELSE IF hasY \/ hasM THEN 1
                  ELSE referenceDate.date
         IN IF d > DaysInMonthOf(y, m) THEN InvalidDate
            ELSE IF "EEEEEE" \in tokens /\ ~hasD
            THEN LET n == dayOfCalDate(CalDate(y, m, d))
                 IN calDateOfDay(n + dateStr.val["EEEEEE"] - (n % 7))
            ELSE CalDate(y, m, d)

\* Lines 92-110 with a format: parse; if that is invalid, the engine's
\* new Date(dateStr), whose reading of such a text is the engine's own
\* (`native`: a date, or undefined for Invalid Date).
strAsDateTokens(dateStr, formatStr, referenceDate, native) ==
    LET parsed == dateFnsParse(dateStr, convertFormatTokens(formatStr), referenceDate)
    IN IF parsed = throws THEN throws
       ELSE IF parsed = InvalidDate THEN native
       ELSE parsed

\* The whole-day dates, formats, reference dates (today) and engine readings
\* explored.
CodecDates ==
    {CalDate(y, m, d) :
        y \in {BaseYear - 74, BaseYear, BaseYear + 1}, m \in {0, 1, 11},
        d \in {1, 15, 28}}
    \cup {CalDate(BaseYear, 1, 29), CalDate(BaseYear, 0, 31)}
CodecFormats == (SUBSET MomentTokens) \ {{}}
CodecToday == {CalDate(BaseYear, 1, 10), CalDate(BaseYear + 1, 5, 30)}
CodecNative == {undefined, CalDate(BaseYear - 23, 0, 1)}

\* strAsDate(formatDate(d, f), f).
RoundTrip ==
    /\ codecOut = NotRun
    /\ codecOut' = strAsDateTokens(formatDateTokens(codecIn.date, codecIn.format),
                                   codecIn.format, codecIn.today, codecIn.native)
    /\ UNCHANGED <<codecIn, widget, controllerVars, calReq, calendarVars>>

CodecInputs ==
    [date : CodecDates, format : CodecFormats, today : CodecToday,
     native : CodecNative]

InitCodec ==
    /\ cfg = DefaultConfig
    /\ start_date = undefined
    /\ end_date = undefined
    /\ internalStartDate = undefined
    /\ internalEndDate = undefined
    /\ startInputValue = EmptyStr
    /\ endInputValue = EmptyStr
    /\ isCalendarOpen = FALSE
    /\ stale = {}
    /\ frames = <<>>
    /\ setPropsCalls = <<>>
    /\ lastOp = Op("mount", 0, 0)
    /\ calReq = NoReq
    /\ numberOfMonthsShown = 1
    /\ visibleMonths = <<>>
    /\ MonthNotRendered
    /\ codecIn \in CodecInputs
    /\ codecOut = NotRun
    /\ widget = NotRun

NextCodec == RoundTrip

SpecCodec == InitCodec /\ [][NextCodec]_vars

----------------------------------------------------------------------------
(* The generic Input widget with a numeric debounce (components/Input).    *)
(* A value is undefined, a string or a number: the string of v = 0 is '',  *)
(* of v = -1 is 'NaN', of v >= 1 the digits of v.                          *)

MaxValue == 2
MaxTimers == 3

noValue == [form |-> "undefined", v |-> 0]
InStr(n) == [form |-> "string", v |-> n]
InNum(n) == [form |-> "number", v |-> n]
NaN == [form |-> "NaN", v |-> 0]

\* Line 23: isNumeric(val) ? +val : NaN.
convert(val) ==
    IF val.form = "number" THEN val
    ELSE IF val.form = "string" /\ val.v >= 1 THEN InNum(val.v)
    ELSE NaN

\* Lines 25-26.
isEquivalent(v1, v2) == v1 = v2

\* input.current.value = `${value}` (line 153): a number input holds '' for
\* a text that is not a number.
TemplateString(value, type) ==
    IF value = NaN THEN (IF type = "number" THEN InStr(0) ELSE InStr(0 - 1))
    ELSE InStr(value.v)

\* A call of props.setProps.
SetProps(key, value) == [key |-> key, value |-> value]

\* The host's setProps: the value sent becomes props.value.
InputHostApply(propsValue, calls) ==
    IF calls # <<>> /\ calls[1].key = "value" THEN calls[1].value ELSE propsValue

\* Lines 89-100 and 102-115: the setProps calls of onEvent, with the
\* props.value of the render `propsValue` that created it; the element is
\* taken to be valid.
onEvent(type, propsValue, inputValue) ==
    IF type = "number"
    THEN IF ~isEquivalent(convert(propsValue), convert(convert(inputValue)))
         THEN <<SetProps("value", convert(convert(inputValue)))>>
         ELSE <<>>
    ELSE <<SetProps("value", IF inputValue = InStr(0) /\ propsValue = noValue
                             THEN noValue ELSE inputValue)>>

\* Lines 144-158: the text of the element after setInputValue(base, value).
setInputValue(base, value, domValue, type) ==
    IF ~isEquivalent(convert(base), convert(value))
    THEN TemplateString(convert(value), type)
    ELSE domValue

\* The dependencies that changed between two renders.
InputStale(w, propsValue, value, pendingEvent) ==
    (IF propsValue # w.propsValue THEN {"props.value"} ELSE {})
    \cup (IF value # w.value THEN {"value"} ELSE {})
    \cup (IF pendingEvent # w.pendingEvent THEN {"pendingEvent"} ELSE {})

InputIdle == widget.stale = {}

\* One render and its effects (lines 206-240).  A text input is controlled:
\* the render writes value ?? '' to the element (line 85).  debounceEvent is
\* memoised on pendingEvent (line 172): it and the onEvent it calls keep the
\* props of the render in which pendingEvent last changed.
InputRunEffects ==
    /\ ~InputIdle
    /\ LET w == widget
           memoProps == IF "pendingEvent" \in w.stale THEN w.propsValue
                        ELSE w.memoProps
           rendered == IF w.type = "number" THEN w.domValue
                       ELSE IF w.value = noValue THEN InStr(0)
                       ELSE w.value
           sync == /\ w.stale \cap {"props.value", "pendingEvent"} # {}
                   /\ ~(w.pendingEvent # 0 \/ w.propsValue = rendered)
           synced == IF sync
                     THEN setInputValue(convert(rendered), w.propsValue, rendered, w.type)
                     ELSE rendered
           debounced == "value" \in w.stale /\ w.value # w.propsValue
           value == IF debounced THEN synced
                    ELSE IF sync /\ w.type # "number" THEN w.propsValue
                    ELSE w.value
           pendingEvent == IF debounced THEN w.nextId ELSE w.pendingEvent
       IN widget' =
              [w EXCEPT
                  !.memoProps = memoProps,
                  !.domValue = synced,
                  !.value = value,
                  !.pendingEvent = pendingEvent,
                  !.timers = IF debounced
                             THEN {t \in w.timers : t.id # w.pendingEvent}
                                  \cup {[id |-> w.nextId, props |-> memoProps]}
                             ELSE w.timers,
                  !.nextId = IF debounced THEN w.nextId + 1 ELSE w.nextId,
                  !.stale = InputStale(w, w.propsValue, value, pendingEvent)]
    /\ UNCHANGED <<controllerVars, calReq, calendarVars, codecIn, codecOut>>

\* The user changes the text of the element: onChange (lines 126-129).
InputChange(text) ==
    /\ InputIdle
    /\ text # widget.domValue
    /\ widget.nextId <= MaxTimers
    /\ widget' = [widget EXCEPT
                     !.domValue = text,
                     !.value = text,
                     !.stale = InputStale(widget, widget.propsValue, text,
                                          widget.pendingEvent),
                     !.calls = <<>>,
                     !.op = "change"]
    /\ UNCHANGED <<controllerVars, calReq, calendarVars, codecIn, codecOut>>

\* A pending timer fires: onEvent of the render that created debounceEvent,
\* and setPendingEvent(undefined) (lines 165-167, 102-115).
TimerFires(t) ==
    /\ InputIdle
    /\ t \in widget.timers
    /\ LET calls == onEvent(widget.type, t.props, widget.domValue)
           propsValue == InputHostApply(widget.propsValue, calls)
       IN widget' = [widget EXCEPT
                        !.timers = widget.timers \ {t},
                        !.propsValue = propsValue,
                        !.pendingEvent = 0,
                        !.stale = InputStale(widget, propsValue, widget.value, 0),
                        !.calls = calls,
                        !.op = "timer"]
    /\ UNCHANGED <<controllerVars, calReq, calendarVars, codecIn, codecOut>>

\* A click on a stepper button of a number input (lines 175-204), step 1, no
\* min or max: the element and the state take the new value and onEvent runs
\* at once, with the props of the current render.
handleStepperClick(direction) ==
    /\ InputIdle
    /\ widget.type = "number"
    /\ widget.nextId <= MaxTimers
    /\ LET currentValue == IF widget.domValue.v >= 1 THEN widget.domValue.v ELSE 0
           newValue == IF direction = "increment" THEN currentValue + 1
                       ELSE currentValue - 1
           calls == onEvent(widget.type, widget.propsValue, InStr(newValue))
           propsValue == InputHostApply(widget.propsValue, calls)
       IN /\ newValue \in 1..MaxValue
          /\ widget' = [widget EXCEPT
                           !.domValue = InStr(newValue),
                           !.value = InStr(newValue),
                           !.propsValue = propsValue,
                           !.pendingEvent = 0,
                           !.stale = InputStale(widget, propsValue, InStr(newValue), 0),
                           !.calls = calls,
                           !.op = "stepper"]
    /\ UNCHANGED <<controllerVars, calReq, calendarVars, codecIn, codecOut>>

\* The element loses the focus (lines 117-124): with a numeric debounce only
\* n_blur is sent.
onBlur ==
    /\ InputIdle
    /\ widget' = [widget EXCEPT
                     !.calls = <<SetProps("n_blur", noValue)>>,
                     !.op = "blur"]
    /\ UNCHANGED <<controllerVars, calReq, calendarVars, codecIn, codecOut>>

\* The values the host gives a text input and a number input.
InputPropValues(type) ==
    {noValue} \cup {IF type = "number" THEN InNum(n) ELSE InStr(n) : n \in 1..MaxValue}

\* The texts the user leaves in the element.
InputTexts == {InStr(n) : n \in 0..MaxValue}

\* The host changes props.value.
InputHostSetValue(value) ==
    /\ InputIdle
    /\ value \in InputPropValues(widget.type)
    /\ value # widget.propsValue
    /\ widget' = [widget EXCEPT
                     !.propsValue = value,
                     !.stale = {"props.value"},
                     !.calls = <<>>,
                     !.op = "host"]
    /\ UNCHANGED <<controllerVars, calReq, calendarVars, codecIn, codecOut>>

\* The first render (lines 80-85): every effect runs after it.  A number
\* input is not controlled, its element starts empty.
InitInput ==
    /\ cfg = DefaultConfig
    /\ start_date = undefined
    /\ end_date = undefined
    /\ internalStartDate = undefined
    /\ internalEndDate = undefined
    /\ startInputValue = EmptyStr
    /\ endInputValue = EmptyStr
    /\ isCalendarOpen = FALSE
    /\ stale = {}
    /\ frames = <<>>
    /\ setPropsCalls = <<>>
    /\ lastOp = Op("mount", 0, 0)
    /\ calReq = NoReq
    /\ numberOfMonthsShown = 1
    /\ visibleMonths = <<>>
    /\ MonthNotRendered
    /\ codecIn = NotRun
    /\ codecOut = NotRun
    /\ \E type \in {"text", "number"} :
       \E value \in InputPropValues(type) :
           widget = [type |-> type,
                     propsValue |-> value,
                     value |-> value,
                     pendingEvent |-> 0,
                     domValue |-> IF type = "number" \/ value = noValue
                                  THEN InStr(0) ELSE value,
                     timers |-> {},
                     memoProps |-> value,
                     nextId |-> 1,
                     stale |-> {"props.value", "value", "pendingEvent"},
                     calls |-> <<>>,
                     op |-> "mount"]

NextInput ==
    \/ InputRunEffects
    \/ \E text \in InputTexts : InputChange(text)
    \/ \E t \in widget.timers : TimerFires(t)
    \/ \E direction \in {"increment", "decrement"} : handleStepperClick(direction)
    \/ onBlur
    \/ \E value \in InputPropValues("text") \cup InputPropValues("number") :
           InputHostSetValue(value)

SpecInput == InitInput /\ [][NextInput]_vars

----------------------------------------------------------------------------
(* Properties                                                              *)

BothSet == ~Falsy(internalStartDate) /\ ~Falsy(internalEndDate)
Empty == Falsy(internalStartDate) /\ Falsy(internalEndDate)
StartOnly == ~Falsy(internalStartDate) /\ Falsy(internalEndDate)
EndOnly == Falsy(internalStartDate) /\ ~Falsy(internalEndDate)

\* Calendar-day equality of a prop and an internal date, stated on the days.
SameCalendarDay(prop, date) ==
    \/ Falsy(prop) /\ Falsy(date)
    \/ ~Falsy(prop) /\ ~Falsy(date) /\ prop.day = date.day

\* Day d is outside [min, max], an explicit disabled day, or in the
\* minimum-nights zone around a start chosen alone.
DisallowedDay(d) ==
    \/ ~Falsy(cfg.min_date_allowed) /\ d < cfg.min_date_allowed.day
    \/ ~Falsy(cfg.max_date_allowed) /\ d > cfg.max_date_allowed.day
    \/ \E x \in cfg.disabled_days : x.day = d
    \/ /\ StartOnly
       /\ \E i \in 1..(cfg.minimum_nights - 1) :
              d = internalStartDate.day + i \/ d = internalStartDate.day - i

\* A step that runs the handler of an event of the kind: events are handled
\* from idle states only, and lastOp' names the event.
Handles(kind) == Idle /\ lastOp'.kind = kind

\* A step in which setProps is called.
Emits == Len(setPropsCalls') = Len(setPropsCalls) + 1
Emitted == setPropsCalls'[Len(setPropsCalls')]

\* C1: whenever the internal start and end are both set, start <= end, and no
\* payload sent to the host carries start_date > end_date.
C1_RangeOrdered ==
    /\ BothSet => internalStartDate.day <= internalEndDate.day
    /\ \A i \in 1..Len(setPropsCalls) :
           LET p == setPropsCalls[i]
           IN (p.keys = {"start_date", "end_date"} /\ ~Falsy(p.start_date)
                   /\ ~Falsy(p.end_date))
              => p.start_date.day <= p.end_date.day

\* C2: an endpoint event (a, b) delivered to handleSelectionChange leaves
\* start <= end whenever both are set, and a > b gives exactly {start: b, end: a}.
C2_EndpointOrdered ==
    [][(/\ Handles("pointer")
        /\ ~DisallowedDay(lastOp'.a) /\ ~DisallowedDay(lastOp'.b))
       => /\ BothSet' => internalStartDate'.day <= internalEndDate'.day
          /\ lastOp'.a > lastOp'.b
                 => /\ internalStartDate' = Date(lastOp'.b)
                    /\ internalEndDate' = Date(lastOp'.a)]_vars

C2_Witness ==
    /\ lastOp.kind = "pointer"
    /\ lastOp.a > lastOp.b
    /\ internalStartDate = Date(lastOp.b)
    /\ internalEndDate = Date(lastOp.a)

\* C3: an endpoint event with anchor = release received while the selection is
\* Empty or Complete gives StartOnly with start = anchor; every other endpoint
\* event gives Complete with the two dates ordered.
C3_EndpointTransition ==
    [][(/\ Handles("pointer")
        /\ ~DisallowedDay(lastOp'.a) /\ ~DisallowedDay(lastOp'.b))
       => IF lastOp'.a = lastOp'.b /\ (Empty \/ BothSet)
          THEN /\ internalStartDate' = Date(lastOp'.a)
               /\ internalEndDate' = undefined
          ELSE /\ internalStartDate' = Date(MinOf(lastOp'.a, lastOp'.b))
               /\ internalEndDate' = Date(MaxOf(lastOp'.a, lastOp'.b))]_vars

\* A new single-date selection made from Complete: the host still holds the
\* old end.
C3_Witness ==
    /\ lastOp.kind = "pointer"
    /\ lastOp.a = lastOp.b
    /\ internalStartDate = Date(lastOp.a)
    /\ internalEndDate = undefined
    /\ ~Falsy(end_date)

\* C4: a keyboard commit on an allowed day always leaves the selection Complete.
C4_KeyboardCompletes ==
    [][(Handles("key") /\ ~DisallowedDay(lastOp'.a)) => BothSet']_vars

C6_EmitOnlyOnDayChange ==
    [][/\ Emits => \/ ~SameCalendarDay(start_date, internalStartDate)
                    \/ ~SameCalendarDay(end_date, internalEndDate)
       /\ (/\ stale \cap {"internalStartDate", "internalEndDate"} # {}
           /\ Empty
           /\ \/ ~SameCalendarDay(start_date, internalStartDate)
              \/ ~SameCalendarDay(end_date, internalEndDate))
          => /\ Emits
             /\ Emitted = Payload({"start_date", "end_date"}, undefined, undefined)]_vars

\* A complete selection was sent once; the props echoed by the host re-created
\* the internal dates (new Date objects of the same days) and nothing more was sent.
C6_Witness ==
    /\ lastOp.kind = "pointer"
    /\ Idle
    /\ BothSet
    /\ Len(setPropsCalls) = 1
    /\ start_date = dateAsStr(internalStartDate)
    /\ end_date = dateAsStr(internalEndDate)

\* C7: with updatemode = singledate, a payload sent while exactly one internal
\* endpoint is set has only the key of that endpoint.
C7_SingleDateOneKey ==
    [][(Emits /\ cfg.updatemode = "singledate")
       => /\ StartOnly => Emitted = Payload({"start_date"},
                                            Str("iso", internalStartDate.day), undefined)
          /\ EndOnly => Emitted = Payload({"end_date"}, undefined,
                                          Str("iso", internalEndDate.day))]_vars

C7_Witness ==
    /\ cfg.updatemode = "singledate"
    /\ StartOnly
    /\ setPropsCalls # <<>>
    /\ setPropsCalls[1].keys = {"start_date"}
    /\ setPropsCalls[1].start_date = Str("iso", internalStartDate.day)

\* C8: with updatemode = bothdates, the effects of a render in which exactly
\* one internal endpoint is set call setProps not at all and leave the props
\* as they are.
C8_BothDatesSilent ==
    [][(/\ cfg.updatemode = "bothdates"
        /\ stale # {}
        /\ StartOnly \/ EndOnly)
       => /\ setPropsCalls' = setPropsCalls
          /\ start_date' = start_date
          /\ end_date' = end_date]_vars

\* A new single-date selection from Complete in bothdates mode: settled, with
\* nothing sent and the host still holding the previous range.
C8_Witness ==
    /\ cfg.updatemode = "bothdates"
    /\ lastOp.kind = "pointer"
    /\ Idle
    /\ StartOnly
    /\ setPropsCalls = <<>>
    /\ ~Falsy(start_date) /\ ~Falsy(end_date)
    /\ start_date.day # internalStartDate.day

\* C9: one user operation leads to at most one call of setProps, the effects
\* that run after the host applied the payload included.
C9_AtMostOneEmission == Len(setPropsCalls) <= 1

\* C10: once the effects have settled after the host changed start_date
\* (resp. end_date), the internal start (resp. end) is the parsed prop and the
\* input shows it in display_format.
C10_PropsWin ==
    (Idle /\ lastOp.kind = "host")
    => /\ lastOp.a = 1
          => /\ internalStartDate = strAsDate(start_date, "none")
             /\ startInputValue = formatDate(strAsDate(start_date, "none"), display_format)
       /\ lastOp.b = 1
          => /\ internalEndDate = strAsDate(end_date, "none")
             /\ endInputValue = formatDate(strAsDate(end_date, "none"), display_format)

\* A step that runs a text commit of the field: Tab, focus while the calendar
\* is open, or the deferred commit of an animation frame.
CommitStep(kind) == stale = {} /\ lastOp'.kind = kind

\* The date a buffer commits: its text parsed with display_format.
Typed(text) == strAsDate(text, display_format)

\* The buffer holds text that is unparsable or names a disallowed day.
RejectedText(text) ==
    /\ text # EmptyStr
    /\ Falsy(Typed(text)) \/ DisallowedDay(Typed(text).day)

AcceptedText(text) == ~Falsy(Typed(text)) /\ ~DisallowedDay(Typed(text).day)

\* C11: once the effects have settled after a user operation that called
\* setProps, the internal start and end equal the props by calendar day.
C11_MirrorsProps ==
    (/\ Idle
     /\ lastOp.kind \notin {"mount", "host"}
     /\ setPropsCalls # <<>>)
    => /\ SameCalendarDay(start_date, internalStartDate)
       /\ SameCalendarDay(end_date, internalEndDate)

\* C12: a text commit of non-empty text that is unparsable or names a
\* disallowed day leaves the internal start and end as they were, puts the
\* committed value, formatted, back into the buffer, and starts no effect, so
\* that setProps is not called.
C12_InvalidCommitReverts ==
    [][/\ (CommitStep("commitStart") /\ RejectedText(startInputValue))
          => /\ internalStartDate' = internalStartDate
             /\ internalEndDate' = internalEndDate
             /\ startInputValue' = formatDate(internalStartDate, display_format)
             /\ stale' = {} /\ setPropsCalls' = <<>>
       /\ (CommitStep("commitEnd") /\ RejectedText(endInputValue))
          => /\ internalStartDate' = internalStartDate
             /\ internalEndDate' = internalEndDate
             /\ endInputValue' = formatDate(internalEndDate, display_format)
             /\ stale' = {} /\ setPropsCalls' = <<>>]_vars

\* The request a commit makes of the calendar: focusDate from the deferred
\* commit, setVisibleDate from the others.
CommitRequest(date) ==
    Req(IF frames # <<>> THEN "focusDate" ELSE "setVisibleDate", date)

\* C13 as stated: a text commit of an allowed date sets that endpoint to the
\* date and asks the calendar to make it visible.
C13_CommitRequestsVisible ==
    [][/\ (CommitStep("commitStart") /\ AcceptedText(startInputValue))
          => /\ internalStartDate' = Date(Typed(startInputValue).day)
             /\ calReq' = CommitRequest(Date(Typed(startInputValue).day))
       /\ (CommitStep("commitEnd") /\ AcceptedText(endInputValue))
          => /\ internalEndDate' = Date(Typed(endInputValue).day)
             /\ calReq' = CommitRequest(Date(Typed(endInputValue).day))]_vars

\* C13, amended: a text commit of an allowed date sets that endpoint to the
\* date; it asks the calendar to make the date visible when the calendar is
\* mounted (the popover is open), and asks nothing when it is not.
C13_CommitRequestsVisibleIfMounted ==
    [][/\ (CommitStep("commitStart") /\ AcceptedText(startInputValue))
          => /\ internalStartDate' = Date(Typed(startInputValue).day)
             /\ calReq' = IF isCalendarOpen /\ ~cfg.disabled
                          THEN CommitRequest(Date(Typed(startInputValue).day))
                          ELSE NoReq
       /\ (CommitStep("commitEnd") /\ AcceptedText(endInputValue))
          => /\ internalEndDate' = Date(Typed(endInputValue).day)
             /\ calReq' = IF isCalendarOpen /\ ~cfg.disabled
                          THEN CommitRequest(Date(Typed(endInputValue).day))
                          ELSE NoReq]_vars

\* A deferred commit of the end input took a typed day and asked the calendar
\* to focus it.
C13_Witness ==
    /\ lastOp.kind = "commitEnd"
    /\ calReq.op = "focusDate"
    /\ ~Falsy(calReq.date)
    /\ internalEndDate = calReq.date
    /\ ~Falsy(end_date) => end_date.day # calReq.date.day

\* C16: with minimum_nights = n > 0, a user operation that changes the range
\* and leaves both ends set leaves at least n nights between them.
C16_MinimumNights ==
    [][(/\ stale = {}
        /\ lastOp'.kind \in {"pointer", "key", "commitStart", "commitEnd"}
        /\ cfg.minimum_nights > 0
        /\ BothSet'
        /\ <<internalStartDate', internalEndDate'>>
               # <<internalStartDate, internalEndDate>>)
       => internalEndDate'.day - internalStartDate'.day >= cfg.minimum_nights]_vars

\* The explicit disabled_days, as days.
ExplicitDays == {x.day : x \in cfg.disabled_days}
DerivedDays ==
    IF StartOnly /\ cfg.minimum_nights > 0
    THEN {internalStartDate.day + i : i \in 1..(cfg.minimum_nights - 1)}
         \cup {internalStartDate.day - i : i \in 1..(cfg.minimum_nights - 1)}
    ELSE {}
DisabledDays == {x.day : x \in disabledDates(internalStartDate, internalEndDate)}

\* C14: the disabled set is the explicit disabled_days plus, exactly when the
\* start is set, the end is not and minimum_nights > 0, the days at offsets
\* +i and -i from the start for i in 1..minimum_nights-1; with the end set or
\* the start unset it is the explicit list.
C14_DisabledSetDerivation ==
    /\ DisabledDays = ExplicitDays \cup DerivedDays
    /\ \A x \in disabledDates(internalStartDate, internalEndDate) : x.form = "Date"
    /\ (~Falsy(internalEndDate) \/ Falsy(internalStartDate))
       => DisabledDays = ExplicitDays

C14_Witness ==
    /\ cfg.minimum_nights = 3
    /\ cfg.disabled_days = {Str("iso", 9)}
    /\ internalStartDate = Date(5)
    /\ Falsy(internalEndDate)
    /\ DisabledDays = {3, 4, 6, 7, 9}

\* C15 as stated: with minimum_nights = 3, start = day 10, no explicit
\* disabled_days and no end, the disabled set is the three days on each side
\* of the start; with an end set it is empty.
C15_ThreeDaysEachSide ==
    (cfg.minimum_nights = 3 /\ cfg.disabled_days = {} /\ internalStartDate = Date(10))
    => /\ Falsy(internalEndDate) => DisabledDays = {7, 8, 9, 11, 12, 13}
       /\ ~Falsy(internalEndDate) => DisabledDays = {}

\* C15, amended: the disabled set is the two days (minimum_nights - 1) on each
\* side of the start; with an end set it is empty.
C15_TwoDaysEachSide ==
    (cfg.minimum_nights = 3 /\ cfg.disabled_days = {} /\ internalStartDate = Date(10))
    => /\ Falsy(internalEndDate) => DisabledDays = {8, 9, 11, 12}
       /\ ~Falsy(internalEndDate) => DisabledDays = {}

C15_Witness ==
    /\ cfg.minimum_nights = 3
    /\ cfg.disabled_days = {}
    /\ internalStartDate = Date(10)
    /\ Falsy(internalEndDate)
    /\ Cardinality(disabledDates(internalStartDate, internalEndDate)) = 4

\* The number of a month, counting months from year 0.
MonthIndex(ym) == ym.year * 12 + ym.month
\* Month b is the calendar month after month a: December is followed by
\* January of the next year.
FollowedBy(a, b) ==
    IF a.month = 11 THEN b = YearMonth(a.year + 1, 0)
    ELSE b = YearMonth(a.year, a.month + 1)
\* The month a call of the handle asks for.
Target(req) == YearMonth(req.date.year, req.date.month)
Shown(m) == \E i \in 1..Len(visibleMonths) : visibleMonths[i] = m
HandleCall == calReq'.op \in {"setVisibleDate", "focusDate"}

\* C17: the window is always numberOfMonthsShown calendar months in a row,
\* ascending, each followed by the next calendar month.
C17_WindowContiguous ==
    /\ Len(visibleMonths) = numberOfMonthsShown
    /\ \A i \in 1..Len(visibleMonths) : visibleMonths[i].month \in 0..11
    /\ \A i \in 1..(Len(visibleMonths) - 1) :
           FollowedBy(visibleMonths[i], visibleMonths[i + 1])

\* setVisibleDate(2025-01-15) on four months: October 2024 to January 2025.
C17_Witness ==
    /\ calReq.op = "setVisibleDate"
    /\ numberOfMonthsShown = 4
    /\ visibleMonths[1] = YearMonth(BaseYear, 9)
    /\ visibleMonths[3] = YearMonth(BaseYear, 11)
    /\ visibleMonths[4] = YearMonth(BaseYear + 1, 0)

\* C18: a call for a month that is shown, in any place of the window, leaves
\* the window as it is.
C18_WindowStable ==
    [][(HandleCall /\ Shown(Target(calReq'))) => visibleMonths' = visibleMonths]_vars

\* A call for the third of four months shown, after an earlier call.
C18_Witness ==
    /\ calReq.op = "setVisibleDate"
    /\ numberOfMonthsShown = 4
    /\ visibleMonths[3] = Target(calReq)
    /\ visibleMonths[1] = YearMonth(BaseYear, 11)

\* C19: a call for a month after the last month shown gives the
\* numberOfMonthsShown months that end with it; a call for a month before the
\* first gives the months that start with it.
C19_ShiftToTarget ==
    [][(HandleCall /\ ~Shown(Target(calReq')))
       => LET n == numberOfMonthsShown
              t == MonthIndex(Target(calReq'))
          IN /\ Len(visibleMonths') = n
             /\ IF t > MonthIndex(visibleMonths[Len(visibleMonths)])
                THEN \A i \in 1..n : MonthIndex(visibleMonths'[i]) = t - (n - i)
                ELSE \A i \in 1..n : MonthIndex(visibleMonths'[i]) = t + (i - 1)]_vars

\* setVisibleDate(2023-12-..) on two months: December 2023, January 2024.
C19_Witness ==
    /\ calReq.op = "setVisibleDate"
    /\ numberOfMonthsShown = 2
    /\ Target(calReq) = YearMonth(BaseYear - 1, 11)
    /\ visibleMonths = <<YearMonth(BaseYear - 1, 11), YearMonth(BaseYear, 0)>>

\* C20 as stated: the first window for the month M of initialVisibleDate is
\* <<M>> for one month, M and the months after it for an even number of
\* months, and M in the middle for an odd number.
C20_InitialWindowEvenFirst ==
    calReq.op = "mount"
    => LET n == numberOfMonthsShown
           m == MonthIndex(Target(calReq))
       IN /\ Len(visibleMonths) = n
          /\ IF n % 2 = 0
             THEN \A i \in 1..n : MonthIndex(visibleMonths[i]) = m + (i - 1)
             ELSE \A i \in 1..n : MonthIndex(visibleMonths[i]) = m - (n \div 2) + (i - 1)

\* C20, amended: the first window starts (n - 1) div 2 months before M: M in
\* the middle for an odd number of months; for an even number n, n/2 - 1
\* months before M, M, and n/2 months after it.
C20_InitialWindow ==
    calReq.op = "mount"
    => LET n == numberOfMonthsShown
           m == MonthIndex(Target(calReq))
       IN /\ Len(visibleMonths) = n
          /\ n = 1 => visibleMonths = <<Target(calReq)>>
          /\ n % 2 = 1
             => \A i \in 1..n : MonthIndex(visibleMonths[i]) = m - (n \div 2) + (i - 1)
          /\ n % 2 = 0
             => \A i \in 1..n : MonthIndex(visibleMonths[i]) = m - (n \div 2 - 1) + (i - 1)

\* Four months from 2024-06-01: May, June, July, August.
C20_Witness ==
    /\ calReq = Req("mount", CalDate(BaseYear, 5, 1))
    /\ visibleMonths = <<YearMonth(BaseYear, 4), YearMonth(BaseYear, 5),
                         YearMonth(BaseYear, 6), YearMonth(BaseYear, 7)>>

\* C21: the first window starts (N - 1) div 2 months before the month M of
\* initialVisibleDate: <<M, M+1>> for two months, <<M-1, M, M+1>> for three,
\* <<M-1, M, M+1, M+2>> for four.
C21_InitialWindowStart ==
    calReq.op = "mount"
    => LET n == numberOfMonthsShown
           m == MonthIndex(Target(calReq))
           Months(offsets) == [i \in 1..Len(offsets) |-> m + offsets[i]]
           shown == [i \in 1..Len(visibleMonths) |-> MonthIndex(visibleMonths[i])]
       IN /\ MonthIndex(visibleMonths[1]) = m - ((n - 1) \div 2)
          /\ n = 2 => shown = Months(<<0, 1>>)
          /\ n = 3 => shown = Months(<<-1, 0, 1>>)
          /\ n = 4 => shown = Months(<<-1, 0, 1, 2>>)

\* Three months from 2024-01-15: December 2023, January, February 2024.
C21_Witness ==
    /\ calReq = Req("mount", CalDate(BaseYear, 0, 15))
    /\ visibleMonths = <<YearMonth(BaseYear - 1, 11), YearMonth(BaseYear, 0),
                         YearMonth(BaseYear, 1)>>

\* The grid position (r, c) stands for this day: the first grid date plus
\* 7r + c days, the first grid date being the latest day on or before the 1st
\* of the month that falls on firstDayOfWeek.
FirstOfMonth == NewDate(monthProps.year, monthProps.month, 1)
FirstGridDay ==
    CHOOSE n \in (FirstOfMonth.day - 6)..FirstOfMonth.day :
        n % 7 = monthProps.firstDayOfWeek
PositionDay(r, c) == FirstGridDay + 7 * r + c
\* Rows the month needs: ceil((offset + daysInMonth) / 7).
RowsNeeded ==
    LET offset == FirstOfMonth.day - FirstGridDay
        daysInMonth == NewDate(monthProps.year, monthProps.month + 1, 1).day
                           - FirstOfMonth.day
    IN (offset + daysInMonth + 6) \div 7
\* Day n is a day of the month rendered.
InMonthDay(n) ==
    /\ FirstOfMonth.day <= n
    /\ n < NewDate(monthProps.year, monthProps.month + 1, 1).day

\* C22: the grid has exactly 6 rows of exactly 7 cells, and every row at index
\* >= ceil((offset + daysInMonth) / 7) is 7 nulls, whatever showOutsideDays.
C22_GridShape ==
    /\ DOMAIN gridDates = 0..5
    /\ \A r \in 0..5 :
           /\ DOMAIN gridDates[r] = 0..6
           /\ r >= RowsNeeded => \A c \in 0..6 : gridDates[r][c] = null

\* A month that needs 4 rows only (a 28-day February that starts on the first
\* day of the week), shown with outside days.
C22_Witness ==
    /\ RowsNeeded = 4
    /\ monthProps.showOutsideDays
    /\ gridDates[3][6] # null
    /\ gridDates[4][0] = null

\* C23: cell (0, 0), unless masked, is the latest day on or before the 1st
\* that falls on firstDayOfWeek, and every non-null cell (r, c) holds that
\* day plus 7r + c: a column is one weekday, neighbours differ by one day.
C23_GridDates ==
    /\ FirstOfMonth.day - FirstGridDay \in 0..6
    /\ monthProps.showOutsideDays => gridDates[0][0] = Date(FirstGridDay)
    /\ \A r \in 0..5, c \in 0..6 :
           gridDates[r][c] # null
           => /\ gridDates[r][c] = Date(PositionDay(r, c))
              /\ getDay(gridDates[r][c]) = (monthProps.firstDayOfWeek + c) % 7

\* A week that starts on Wednesday, the 1st falling on a Monday: the grid
\* starts 5 days back.
C23_Witness ==
    /\ monthProps.firstDayOfWeek = 3
    /\ getDay(FirstOfMonth) = 1
    /\ gridDates[0][0] = addDays(FirstOfMonth, -5)
    /\ gridDates[1][2] = addDays(FirstOfMonth, 4)

\* C24 as stated: without outside days every non-null cell is a day of the
\* month; with outside days every position whose day is of an adjacent month
\* holds a date.
C24_OutsideDays ==
    /\ ~monthProps.showOutsideDays
       => \A r \in 0..5, c \in 0..6 :
              gridDates[r][c] # null => InMonthDay(gridDates[r][c].day)
    /\ monthProps.showOutsideDays
       => \A r \in 0..5, c \in 0..6 :
              ~InMonthDay(PositionDay(r, c)) => gridDates[r][c] # null

\* C24, amended: with outside days, the positions of the rows the month needs
\* hold dates; the rows after them are null (C22).
C24_OutsideDaysInNeededRows ==
    /\ ~monthProps.showOutsideDays
       => \A r \in 0..5, c \in 0..6 :
              /\ gridDates[r][c] # null => InMonthDay(gridDates[r][c].day)
              /\ InMonthDay(PositionDay(r, c)) => gridDates[r][c] # null
    /\ monthProps.showOutsideDays
       => \A r \in 0..5, c \in 0..6 :
              r < RowsNeeded => gridDates[r][c] = Date(PositionDay(r, c))

\* Outside days hidden: the cell before the 1st is null, the 1st is not.
C24_Witness ==
    /\ ~monthProps.showOutsideDays
    /\ gridDates[0][2] = null
    /\ gridDates[0][3] = FirstOfMonth
    /\ RowsNeeded = 5

\* Both bounds of the month are given.
BothBounds ==
    ~Falsy(monthProps.minDateAllowed) /\ ~Falsy(monthProps.maxDateAllowed)
\* The bounds are given the wrong way round.
InvertedBounds ==
    BothBounds /\ monthProps.maxDateAllowed.day < monthProps.minDateAllowed.day
\* Day n is strictly between the two bounds.
BetweenBounds(n) ==
    \/ monthProps.minDateAllowed.day < n /\ n < monthProps.maxDateAllowed.day
    \/ monthProps.maxDateAllowed.day < n /\ n < monthProps.minDateAllowed.day

\* C25: isDateInRange(d, a, b) = isDateInRange(d, b, a), and with both bounds
\* given it is true exactly when d is, by calendar day, between the earlier
\* and the later of the two, ends included; an inverted pair is a range.
C25_RangeSymmetric ==
    ~Falsy(dateFocused)
    => \A a, b \in KeyBounds \cup ({monthProps.minDateAllowed,
                                    monthProps.maxDateAllowed} \ {undefined}) :
           /\ isDateInRange(dateFocused, a, b) = isDateInRange(dateFocused, b, a)
           /\ isDateInRange(dateFocused, a, b)
              <=> \/ a.day <= dateFocused.day /\ dateFocused.day <= b.day
                  \/ b.day <= dateFocused.day /\ dateFocused.day <= a.day

\* With min after max, a key moved the focus to a day between the two.
C25_Witness ==
    /\ InvertedBounds
    /\ monthCall.fn = "onDayFocused"
    /\ dateFocused = monthCall.date
    /\ BetweenBounds(dateFocused.day)

\* The dates the month's constraints are asked about: the focused day and
\* the bounds themselves.
AskedDates ==
    {dateFocused, monthProps.minDateAllowed, monthProps.maxDateAllowed}
        \ {undefined}
ListedDay(n) == \E x \in monthProps.disabledDates : x.day = n

\* C26 as stated: a date is disabled exactly when it is before min, or after
\* max, or the day of an entry of the disabled list.
C26_DisabledExactly ==
    \A date \in AskedDates :
        isDisabled(date)
        <=> \/ ~Falsy(monthProps.minDateAllowed)
               /\ date.day < monthProps.minDateAllowed.day
            \/ ~Falsy(monthProps.maxDateAllowed)
               /\ date.day > monthProps.maxDateAllowed.day
            \/ ListedDay(date.day)

\* C26, amended: with both bounds given the date is compared with the earlier
\* and the later of the two, whichever was passed as min; with one bound only
\* that bound counts, with none only the list; the bounds are allowed.
C26_DisabledExactlyNormalised ==
    \A date \in AskedDates :
        LET mn == monthProps.minDateAllowed
            mx == monthProps.maxDateAllowed
            lower == IF BothBounds /\ mx.day < mn.day THEN mx ELSE mn
            upper == IF BothBounds /\ mx.day < mn.day THEN mn ELSE mx
        IN isDisabled(date)
           <=> \/ ~Falsy(lower) /\ date.day < lower.day
               \/ ~Falsy(upper) /\ date.day > upper.day
               \/ ListedDay(date.day)

\* With min after max, Enter selected a focused day between the two.
C26_Witness ==
    /\ InvertedBounds
    /\ monthCall.key = "Enter"
    /\ monthCall.fn = "onSelectionEnd"
    /\ BetweenBounds(monthCall.date.day)

NavKeys == {"ArrowRight", "ArrowLeft", "ArrowDown", "ArrowUp", "PageDown",
            "PageUp", "Home", "End"}
SetMax(S) == CHOOSE x \in S : \A y \in S : y <= x
MonthNumber(n) == getYear(Date(n)) * 12 + getMonth(Date(n))
\* The day `by` months from day d: the same day of the month, or the last day
\* of that month when it is shorter.
MonthAway(d, by) ==
    SetMax({t \in (d - 31)..(d + 31) :
               /\ MonthNumber(t) = MonthNumber(d) + by
               /\ getDate(Date(t)) <= getDate(Date(d))})
\* The day each navigation key aims at from day d.
NavTarget(key, d) ==
    CASE key = "ArrowRight" -> IF monthProps.direction = "rtl" THEN d - 1 ELSE d + 1
      [] key = "ArrowLeft" -> IF monthProps.direction = "rtl" THEN d + 1 ELSE d - 1
      [] key = "ArrowDown" -> d + 7
      [] key = "ArrowUp" -> d - 7
      [] key = "PageDown" -> MonthAway(d, 1)
      [] key = "PageUp" -> MonthAway(d, -1)
      [] key = "Home" ->
             CHOOSE t \in (d - 6)..d : t % 7 = monthProps.firstDayOfWeek
      [] key = "End" ->
             CHOOSE t \in d..(d + 6) : t % 7 = (monthProps.firstDayOfWeek + 6) % 7
\* Day n is within the bounds of the month (between the two when both are
\* given, C25).
WithinBounds(n) ==
    LET mn == monthProps.minDateAllowed
        mx == monthProps.maxDateAllowed
    IN IF BothBounds
       THEN \/ mn.day <= n /\ n <= mx.day
            \/ mx.day <= n /\ n <= mn.day
       ELSE /\ ~Falsy(mn) => mn.day <= n
            /\ ~Falsy(mx) => n <= mx.day

\* C27: a navigation key on the focused day asks for the focus to move to its
\* target (a day, a week or a month away, or the first or last day of the
\* week) if and only if the target is within the bounds, so a focus within
\* the bounds stays within them; it never calls onSelectionStart or
\* onSelectionEnd.
C27_KeyNavigation ==
    [][\A key \in NavKeys :
           monthCall'.key = key
           => LET d == dateFocused.day
                  t == NavTarget(key, d)
              IN /\ monthCall'.fn \notin {"onSelectionStart", "onSelectionEnd"}
                 /\ IF WithinBounds(t)
                    THEN /\ monthCall'.fn = "onDayFocused"
                         /\ monthCall'.date.day = t
                         /\ dateFocused'.day = t
                    ELSE /\ monthCall'.fn = "none"
                         /\ dateFocused' = dateFocused
                 /\ WithinBounds(d) => WithinBounds(dateFocused'.day)]_vars

\* On the minimum day, ArrowLeft was refused: the focus is still there.
C27_Witness ==
    /\ monthProps.minDateAllowed = KeyMin
    /\ monthProps.direction = "ltr"
    /\ dateFocused.day = KeyMin.day
    /\ monthCall = Call("ArrowLeft", "none", undefined)

\* A prop holds a date.
PropSet == ~Falsy(start_date) \/ ~Falsy(end_date)
BothCleared == Payload({"start_date", "end_date"}, undefined, undefined)

SelectionEvent ==
    /\ Handles("pointer") \/ Handles("key")
    /\ CalendarDayAccepts(Date(lastOp'.a))
    /\ CalendarDayAccepts(Date(lastOp'.b))

\* C29: a selection event closes the calendar exactly when its resulting end
\* date is set and stay_open_on_select is not configured; one that results in
\* a start alone never closes it, and with stay_open_on_select none does.
C29_ClosesOnCompletedRange ==
    [][SelectionEvent
       => /\ ~isCalendarOpen'
             <=> (~Falsy(internalEndDate') /\ ~cfg.stay_open_on_select)
          /\ (~Falsy(internalStartDate') /\ Falsy(internalEndDate'))
             => isCalendarOpen'
          /\ cfg.stay_open_on_select => isCalendarOpen']_vars

\* A pointer selection has just completed a range and closed the calendar.
C29_Witness ==
    /\ lastOp.kind = "pointer"
    /\ lastOp.a # lastOp.b
    /\ BothSet
    /\ ~isCalendarOpen
    /\ stale # {}
    /\ setPropsCalls = <<>>

\* C30: at most one deferred commit is pending at any time, and two deferred
\* commits of the same field are never both pending (so never both run).
C30_SinglePendingCommit ==
    /\ Len(frames) <= 1
    /\ \A i, j \in 1..Len(frames) : i # j => frames[i].field # frames[j].field

\* C31: while disabled is true the popover is not open, the clear control is
\* not offered, and no user operation (a click on the wrapper included)
\* opens the calendar, changes the internal range or calls setProps.
C31_DisabledInert ==
    [][cfg.disabled
       => /\ ~CalendarMounted
          /\ lastOp'.kind # "clear"
          /\ (cfg'.disabled /\ lastOp'.kind \notin {"host", "disable", "mount"})
             => /\ UNCHANGED <<internalStartDate, internalEndDate, isCalendarOpen,
                               startInputValue, endInputValue>>
                /\ setPropsCalls' = <<>>
                /\ stale' = {}]_vars

\* Disabled while the calendar was open on a complete range, then clicked:
\* isCalendarOpen is still true, the popover is not rendered.
C31_Witness ==
    /\ cfg.disabled
    /\ isCalendarOpen
    /\ BothSet
    /\ lastOp.kind = "click"

\* C32 as stated: from Empty, the user's operations never reach a state with
\* the end set and the start unset.
C32_NoEndOnly == ~EndOnly

\* C32, amended: from Empty, only a text commit (and the effects that follow
\* it) brings the state with the end set and the start unset; pointer
\* selections, keyboard commits and clears never do, and a selection the
\* calendar passes on in that state completes the range.
C32_EndOnlyByTextCommitOnly ==
    [][/\ (~EndOnly /\ EndOnly') => lastOp'.kind \in {"commitStart", "commitEnd"}
       /\ (SelectionEvent /\ EndOnly) => BothSet']_vars

\* An end typed and committed with no start: settled with the end alone.
C32_Witness ==
    /\ EndOnly
    /\ lastOp.kind = "commitEnd"
    /\ Falsy(start_date)
    /\ stale = {}
    /\ frames = <<>>

\* The round trip has run.
RoundTripDone == codecOut # NotRun
\* The format names a year, a month and a day of the month, each once, and
\* not X; a two-digit year is within its window of today's year.
DateCompleteFormat ==
    LET f == codecIn.format
    IN /\ "X" \notin f
       /\ "MM" \in f
       /\ Cardinality(f \cap {"YYYY", "YY"}) = 1
       /\ Cardinality(f \cap {"DD", "D", "Do"}) = 1
       /\ "YY" \in f => /\ codecIn.date.year >= codecIn.today.year - 50
                        /\ codecIn.date.year <= codecIn.today.year + 49

C35_EditChangesBufferOnly ==
    [][/\ Handles("editStart")
          => /\ UNCHANGED <<internalStartDate, internalEndDate, endInputValue,
                            isCalendarOpen, visibleMonths, start_date, end_date>>
             /\ setPropsCalls' = <<>>
             /\ calReq' = NoReq
             /\ stale' = {} /\ frames' = <<>>
       /\ Handles("editEnd")
          => /\ UNCHANGED <<internalStartDate, internalEndDate, startInputValue,
                            isCalendarOpen, visibleMonths, start_date, end_date>>
             /\ setPropsCalls' = <<>>
             /\ calReq' = NoReq
             /\ stale' = {} /\ frames' = <<>>]_vars

\* A start buffer edited away from the start date of a complete range.
C35_Witness ==
    /\ lastOp.kind = "editStart"
    /\ BothSet
    /\ ~Falsy(strAsDate(startInputValue, display_format))
    /\ startInputValue # formatDate(internalStartDate, display_format)
    /\ Idle

\* C36: in singledate mode a setProps call with one key carries an endpoint
\* whose internal value differs by calendar day from its prop, in the render
\* whose emission effect makes the call.
C36_SingleKeyIsChangedEndpoint ==
    [][(cfg.updatemode = "singledate" /\ Emits /\ Cardinality(Emitted.keys) = 1)
       => /\ "start_date" \in Emitted.keys => ~isSameDay(start_date, internalStartDate)
          /\ "end_date" \in Emitted.keys => ~isSameDay(end_date, internalEndDate)]_vars

\* C37: once the effects have settled after a text commit, the buffer of the
\* committed field is formatDate(its internal endpoint, display_format), the
\* empty string when that endpoint is unset.
C37_BufferShowsInternal ==
    /\ (Idle /\ lastOp.kind = "commitStart")
       => startInputValue = formatDate(internalStartDate, display_format)
    /\ (Idle /\ lastOp.kind = "commitEnd")
       => endInputValue = formatDate(internalEndDate, display_format)

\* C38: committing an empty end buffer sets the internal end to undefined;
\* committing an empty start buffer leaves the internal start as it was and
\* puts the start_date prop, formatted, into the start buffer; committing a
\* non-empty start buffer leaves the internal start unset only if the text is
\* rejected.
C38_EmptyCommitAsymmetry ==
    [][/\ (CommitStep("commitEnd") /\ endInputValue = EmptyStr)
          => internalEndDate' = undefined
       /\ (CommitStep("commitStart") /\ startInputValue = EmptyStr)
          => /\ internalStartDate' = internalStartDate
             /\ startInputValue' = formatDate(strAsDate(start_date, "none"),
                                             display_format)
       /\ (CommitStep("commitStart") /\ startInputValue # EmptyStr
           /\ Falsy(internalStartDate'))
          => RejectedText(startInputValue)]_vars

\* An empty start buffer was committed over a start date that stays, after an
\* empty end buffer cleared the end.
C38_Witness ==
    /\ lastOp.kind = "commitStart"
    /\ ~Falsy(internalStartDate)
    /\ Falsy(internalEndDate) /\ ~Falsy(end_date)
    /\ startInputValue = formatDate(internalStartDate, display_format)
    /\ cfg.updatemode = "bothdates"
    /\ Idle

\* The cells that hold day n.
CellsOf(n) == {rc \in (0..5) \X (0..6) : gridDates[rc[1]][rc[2]] = Date(n)}

\* C39: every day of the month rendered is in exactly one cell of the grid,
\* in a row below ceil((offset + daysInMonth) / 7), which is at most 6: the
\* six rows cut no day of the month off.
C39_EveryDayOnce ==
    /\ RowsNeeded <= 6
    /\ \A n \in FirstOfMonth.day..(FirstOfMonth.day + 30) :
           InMonthDay(n)
           => /\ Cardinality(CellsOf(n)) = 1
              /\ \A rc \in CellsOf(n) : rc[1] < RowsNeeded

\* A month that needs all six rows, outside days hidden: its last day is in
\* the sixth.
C39_Witness ==
    /\ RowsNeeded = 6
    /\ ~monthProps.showOutsideDays
    /\ \E c \in 0..6 :
           /\ gridDates[5][c] # null
           /\ InMonthDay(gridDates[5][c].day)
           /\ ~InMonthDay(gridDates[5][c].day + 1)

\* The timers of the Input widget that are pending.
PendingTimers == widget.timers
\* props.value is the text of the element, as onEvent sends it.
HostHoldsText ==
    IF widget.type = "number"
    THEN convert(widget.propsValue) = convert(widget.domValue)
    ELSE \/ widget.propsValue = widget.domValue
         \/ widget.propsValue = noValue /\ widget.domValue = InStr(0)

\* C40: with a numeric debounce at most one timer is pending; when the last
\* timer fires the value is sent to the host, once, so that props.value is
\* the text typed; and while a timer is pending a change of props.value by
\* the host leaves the text of the element as it is.
C40_SingleDebounceTimer ==
    [][/\ Cardinality(widget'.timers) <= 1
       /\ (widget'.op = "timer" /\ widget'.timers = {})
          => /\ Len(widget'.calls) <= 1
             /\ HostHoldsText'
       /\ (PendingTimers # {} /\ widget'.op = "host")
          => widget'.domValue = widget.domValue]_vars

====
